---------------------------- MODULE Spec2Model ----------------------------
(***************************************************************************)
(* HomeShare (src/server.py, src/cli.py): path confinement of client       *)
(* supplied paths (_safe_join) and the resumable upload store              *)
(* (UploadManager) behind the HTTP handlers of HomeShareHandler.           *)
(*                                                                         *)
(* Paths are sequences of segments: the string "a//../b" is the sequence   *)
(* <<"a", "", "..", "b">> (the string split at "/"), an absolute path      *)
(* "/srv/share" is <<"srv", "share">>.                                     *)
(***************************************************************************)
EXTENDS Integers, Sequences, FiniteSets, TLC

VARIABLES
    links,      \* the filesystem's symlinks: absolute path -> absolute target
    rel,        \* the last client path handed to _safe_join
    joined,     \* what _safe_join did with it: a path or the PermissionError
    cfg,        \* ServerConfig: read_only, overwrite
    meta,       \* <state_dir>/uploads/<id>.json as the server reads it (page cache)
    metaDisk,   \* the same files as a power loss would leave them
    part,       \* <state_dir>/uploads/<id>.part as the server reads it
    partDisk,   \* the same files as a power loss would leave them
    share,      \* the files of the share root the uploads target
    lock,       \* UploadManager._lock: its holder, or "free"
    req,        \* per worker thread: the request it is handling and where it is
    nextId,     \* the next unused upload id (uuid4 never repeats one)
    cli,        \* a sender running HomeShareClient.upload (src/cli.py)
    lastResume, \* history: the session the last resume=true create returned
    boot,       \* history: the session records the last restart found
    gone,       \* history: the ids of the sessions that were finalized
    cancelled,  \* history: the ids of the issued sessions a cancel returned for
    dl,         \* the last GET /files/<path>: the file, its Range header, the answer
    arc,        \* a POST /api/zip: the share it runs on, its spool, what it sent
    lst,        \* the last GET /api/list: the directory as enumerated, the answer
    ans         \* the last request that carried a client path: endpoint, answer

pathVars == <<links, rel, joined>>

storeVars == <<cfg, meta, metaDisk, part, partDisk, share, lock, req, nextId>>

histVars == <<lastResume, boot, gone, cancelled>>

clientVars == <<cli, lastResume, boot, gone, cancelled>>

readVars == <<dl, arc, lst, ans>>

vars == <<links, rel, joined, cfg, meta, metaDisk, part, partDisk, share, lock,
          req, nextId, cli, lastResume, boot, gone, cancelled, dl, arc, lst, ans>>

---------------------------------------------------------------------------
(* Bounds of the path model. *)

\* longest client path, in segments
MaxSegs == 3

\* largest declared upload size (sizes range over -1..MaxSize)
MaxSize == 2

\* upload sessions ever created in one run
MaxSessions == 2

\* longest file the sender of the end-to-end runs uploads
MaxFile == 3

---------------------------------------------------------------------------
(* Sequences. *)

IsPrefix(p, q) == Len(p) <= Len(q) /\ SubSeq(q, 1, Len(p)) = p

Front(s) == SubSeq(s, 1, Len(s) - 1)

Last(s) == s[Len(s)]

SeqsUpTo(S, n) == UNION {[1..k -> S] : k \in 0..n}

---------------------------------------------------------------------------
(* _safe_join, src/server.py:45-62. *)

\* config.share_root, resolved once at start-up (src/server.py:596)
ShareRoot == <<"srv", "share">>

\* str.strip("/") on the split string: leading and trailing empty segments go;
\* <<>> stands for the empty string
RECURSIVE StripLeft(_)
StripLeft(s) == IF s # <<>> /\ Head(s) = "" THEN StripLeft(Tail(s)) ELSE s

RECURSIVE StripRight(_)
StripRight(s) == IF s # <<>> /\ Last(s) = "" THEN StripRight(Front(s)) ELSE s

StripSlashes(s) == StripRight(StripLeft(s))

\* posixpath.normpath of a path without initial slashes: "" and "." segments
\* are dropped, ".." cancels the segment before it unless there is none or it
\* is itself ".."; <<>> stands for the result "."
RECURSIVE NormComps(_, _)
NormComps(comps, new) ==
    IF comps = <<>> THEN new
    ELSE LET c == Head(comps) IN
         IF c \in {"", "."} THEN NormComps(Tail(comps), new)
         ELSE IF c # ".." \/ new = <<>> \/ Last(new) = ".."
              THEN NormComps(Tail(comps), Append(new, c))
              ELSE NormComps(Tail(comps), Front(new))

NormPath(s) == NormComps(s, <<>>)

\* Path.resolve(strict=False): segments are walked left to right from "/",
\* ".." drops the last resolved segment, a prefix that is a symlink is
\* replaced by its (absolute) target, a segment that does not exist is kept
RECURSIVE Realpath(_, _, _)
Realpath(res, rest, lk) ==
    IF rest = <<>> THEN res
    ELSE LET c == Head(rest) IN
         IF c = ".."
         THEN Realpath(IF res = <<>> THEN res ELSE Front(res), Tail(rest), lk)
         ELSE LET np == Append(res, c) IN
              IF np \in DOMAIN lk
              THEN Realpath(<<>>, lk[np] \o Tail(rest), lk)
              ELSE Realpath(np, Tail(rest), lk)

Resolve(path, lk) == Realpath(<<>>, path, lk)

PathEscape == [kind |-> "PermissionError", path |-> <<>>]

\* a variant that tests the joined path before it is canonicalized
SafeJoinUnresolved(root, relative, lk) ==
    LET parts     == NormPath(StripSlashes(relative))
        candidate == root \o parts
    IN  IF IsPrefix(root, candidate)
        THEN [kind |-> "ok", path |-> Resolve(candidate, lk)]
        ELSE PathEscape

SafeJoin(root, relative, lk) ==
    LET parts     == NormPath(StripSlashes(relative))
        candidate == root \o parts
        resolved  == Resolve(candidate, lk)
    IN  IF IsPrefix(root, resolved)
        THEN [kind |-> "ok", path |-> resolved]
        ELSE PathEscape

---------------------------------------------------------------------------
(* The filesystems and client paths _safe_join is run on. *)

Segments == {"", ".", "..", "a", "ln"}

\* a client path as the string split at "/": at least one segment ("" is <<"">>)
RelPaths == SeqsUpTo(Segments, MaxSegs) \ {<<>>}

\* symlink tables (acyclic): none; a link out of the root; a link to the
\* root's parent; a link inside the root; a chain leaving the root through a
\* second link; a link below a directory of the root
LinkTables ==
    { <<>>,
      [p \in {ShareRoot \o <<"ln">>} |-> <<"etc">>],
      [p \in {ShareRoot \o <<"ln">>} |-> <<"srv">>],
      [p \in {ShareRoot \o <<"ln">>} |-> ShareRoot \o <<"a">>],
      [p \in {ShareRoot \o <<"ln">>, ShareRoot \o <<"a", "ln">>} |->
            IF p = ShareRoot \o <<"ln">> THEN ShareRoot \o <<"a", "ln">>
                                         ELSE <<"etc", "a">>],
      [p \in {ShareRoot \o <<"a", "ln">>} |-> <<>>] }

PathInit ==
    /\ links \in LinkTables
    /\ rel = <<"">>
    /\ joined = SafeJoin(ShareRoot, <<"">>, links)

\* one call _safe_join(share_root, p); nothing is cached, so the filesystem
\* the call sees may differ from the one the call before it saw
SafeJoinCall ==
    \E lk \in LinkTables, p \in RelPaths :
        /\ links' = lk
        /\ rel' = p
        /\ joined' = SafeJoin(ShareRoot, p, lk)

PathNext == SafeJoinCall /\ UNCHANGED storeVars /\ UNCHANGED clientVars /\ UNCHANGED readVars


---------------------------------------------------------------------------
(* The upload store's data, src/server.py:76-198. *)

\* worker threads of ThreadingHTTPServer (one per connection)
Workers == DOMAIN req

\* upload ids, in the order uuid4 hands them out
IDs == 1..MaxSessions

\* the paths of the share root that uploads target (relative to the root)
Targets == DOMAIN share

\* declared sizes a client may send: int(body["size"]) accepts any integer
Sizes == -1..MaxSize

\* payload bytes of an upload; "0" is the NUL a write past the end of file
\* leaves in the gap, "z" the content of a file that was in the share before
\* any upload. The store never reads a payload byte, so one value stands for
\* all of them where the sender is arbitrary.
Bytes == {"a"}

Hole == "0"

\* the "overwrite" member of a create request: true, false or absent
OverwriteArgs == {"true", "false", "absent"}

\* a file that does not exist / a file with content
NoFile == [ex |-> FALSE, data |-> <<>>]

File(d) == [ex |-> TRUE, data |-> d]

\* a session record file: absent ("none"), cut short so that json.load fails
\* ("torn"), or holding the meta dict ("ok"); temp_file is a function of
\* upload_id (_temp_file) and created_at is never read, so neither is kept
NoMeta ==
    [st |-> "none", upload_id |-> 0, target_path |-> "", total_size |-> 0,
     received |-> 0, overwrite |-> FALSE]

TornMeta == [NoMeta EXCEPT !.st = "torn"]

\* the meta dict create_session builds, src/server.py:143-151
NewMeta(id, target, size, ow) ==
    [st |-> "ok", upload_id |-> id, target_path |-> target, total_size |-> size,
     received |-> 0, overwrite |-> ow]

\* a response body that is no session view
NoBody ==
    [upload_id |-> 0, target_path |-> "", total_size |-> 0, received |-> 0,
     overwrite |-> FALSE, completed |-> FALSE]

\* _public_state, src/server.py:107-111
PublicState(m) ==
    [upload_id |-> m.upload_id, target_path |-> m.target_path,
     total_size |-> m.total_size, received |-> m.received,
     overwrite |-> m.overwrite,
     completed |-> (m.received >= m.total_size /\ m.total_size > 0)]

\* a response: the HTTP status (0: the handler died on an exception it does
\* not catch and the connection closed without a response), the error
\* message, and the JSON body of a success
Resp(code, msg, body) == [code |-> code, msg |-> msg, body |-> body]

NoResp == Resp(0, "", NoBody)

NoResponse(why) == Resp(0, why, NoBody)

Error(code, msg) == Resp(code, msg, NoBody)

\* the messages of the errors append_chunk and _finalize raise
SequenceMismatch == "Unexpected chunk start"

RangeEndInvalid == "Invalid range end"

RangeExceeds == "Chunk exceeds declared file size"

TargetExists == "Target file exists"

SessionNotFound == "Upload session not found"

ReadOnlyMode == "Server running in read-only mode"

LengthMismatch == "Content-Length mismatch"

\* a worker with no request
IdleReq ==
    [pc |-> "idle", op |-> "", id |-> 0, start |-> 0, endx |-> 0,
     chunk |-> <<>>, resume |-> FALSE, m |-> NoMeta, io |-> <<>>, out |-> NoResp]

\* a variant of the write that never seeks
WriteAtZero(data, start, chunk) ==
    chunk \o (IF Len(chunk) < Len(data)
              THEN SubSeq(data, Len(chunk) + 1, Len(data)) ELSE <<>>)

\* temp_fp.seek(start); temp_fp.write(chunk), src/server.py:166-167: a seek
\* past the end leaves a gap of NULs, bytes after the chunk stay
WriteAt(data, start, chunk) ==
    LET padded == IF start > Len(data)
                  THEN data \o [i \in 1..(start - Len(data)) |-> Hole]
                  ELSE data
        stop   == start + Len(chunk)
    IN  SubSeq(padded, 1, start) \o chunk \o
        (IF stop < Len(padded) THEN SubSeq(padded, stop + 1, Len(padded)) ELSE <<>>)

\* a variant of the offset check that also lets a chunk start below the offset
AcceptOverlap(m, start, endx) ==
    IF m.received < start THEN SequenceMismatch
    ELSE IF endx < start THEN RangeEndInvalid
    ELSE IF endx > m.total_size THEN RangeExceeds
    ELSE "ok"

\* a variant of the checks that lets a chunk end past the declared size
AcceptOverrun(m, start, endx) ==
    IF m.received # start THEN SequenceMismatch
    ELSE IF endx < start THEN RangeEndInvalid
    ELSE "ok"

\* the checks of append_chunk, src/server.py:159-164: "ok" or the ValueError
AppendCheck(m, start, endx) ==
    IF m.received # start THEN SequenceMismatch
    ELSE IF endx < start THEN RangeEndInvalid
    ELSE IF endx > m.total_size THEN RangeExceeds
    ELSE "ok"

\* the sessions _list_sessions returns, src/server.py:113-122: every record
\* that json.load reads
ListSessions == {i \in IDs : meta[i].st = "ok"}

\* a variant of the resume search that compares the target path only
ResumeByTarget(target, size) ==
    {i \in {j \in IDs : meta[j].st = "ok"} : meta[i].target_path = target}

\* the sessions the resume search of create_session may return,
\* src/server.py:137-140: glob yields the records in directory order, which
\* no rule fixes, so with several matches any of them can be the first
ResumeMatches(target, size) ==
    {i \in ListSessions :
        meta[i].target_path = target /\ meta[i].total_size = size}

\* "overwrite" of the request, or the server's default when it is absent,
\* src/server.py:134-135
EffectiveOverwrite(ow) ==
    IF ow = "absent" THEN cfg.overwrite ELSE ow = "true"

\* a test that finalizes as soon as a byte is recorded
FinalizeEager(m) == m.received >= 1

\* a test that lets a session reach its size without finalizing
FinalizeNever(m) == m.received > m.total_size

\* the condition under which append_chunk finalizes, src/server.py:172
FinalizeDue(m) == m.received >= m.total_size

---------------------------------------------------------------------------
(* The state after start-up: run_server, src/server.py:621-622. *)

\* the configurations _parse_args can build, src/server.py:604-617
Configs == [read_only : BOOLEAN, overwrite : BOOLEAN]

\* an empty upload directory and an empty share with the target paths ts;
\* first is the first upload id uuid4 will return
StoreInit(ts, first) ==
    /\ cfg \in Configs
    /\ meta = [i \in IDs |-> NoMeta]
    /\ metaDisk = [i \in IDs |-> NoMeta]
    /\ part = [i \in IDs |-> NoFile]
    /\ partDisk = [i \in IDs |-> NoFile]
    /\ share = [t \in ts |-> NoFile]
    /\ lock = "free"
    /\ req = [w \in {"w1"} |-> IdleReq]
    /\ nextId = first

\* the same with two worker threads: two connections at once
StoreInitPair(ts, first) ==
    /\ cfg \in Configs
    /\ meta = [i \in IDs |-> NoMeta]
    /\ metaDisk = [i \in IDs |-> NoMeta]
    /\ part = [i \in IDs |-> NoFile]
    /\ partDisk = [i \in IDs |-> NoFile]
    /\ share = [t \in ts |-> NoFile]
    /\ lock = "free"
    /\ req = [w \in {"w1", "w2"} |-> IdleReq]
    /\ nextId = first

\* no _safe_join call is modelled in the runs of the upload store
PathIdle ==
    /\ links = <<>>
    /\ rel = <<"">>
    /\ joined = SafeJoin(ShareRoot, <<"">>, <<>>)

\* no sender and no history
CliOff ==
    [pc |-> "off", src |-> <<>>, target |-> "", id |-> 0, offset |-> 0,
     last |-> NoResp]

NoResume == [target |-> "", size |-> 0, id |-> 0]

NoHistory ==
    /\ lastResume = NoResume
    /\ boot = [i \in IDs |-> NoMeta]
    /\ gone = {}
    /\ cancelled = {}

\* ---- GET /files/<path>: _send_file, src/server.py:275-323 ----

\* the bytes of the served files
FileBytes == {"a", "b"}

\* the files GET /files/ may name: absent, or 0..MaxFile bytes
Served == {NoFile} \cup {File(d) : d \in SeqsUpTo(FileBytes, MaxFile)}

\* a group of the pattern bytes=(\d*)-(\d*) that matched no digit
Empty == -1

\* the numbers a Range header may carry: up to one past the largest size
RangeNums == {Empty} \cup (0..(MaxFile + 1))

\* the Range header: absent ("none"), one that the pattern does not match
\* ("other"), or bytes=<s>-<e> with either number possibly missing
NoRange == [kind |-> "none", s |-> Empty, e |-> Empty]

RangeHeaders ==
    {NoRange, [kind |-> "other", s |-> Empty, e |-> Empty]}
        \cup {[kind |-> "bytes", s |-> a, e |-> b] : a, b \in RangeNums}

\* the Content-Range header of an answer
NoContentRange == [kind |-> "none", start |-> 0, end |-> 0, size |-> 0]

ContentRange(start, end, size) ==
    [kind |-> "range", start |-> start, end |-> end, size |-> size]

ContentRangeStar(size) == [kind |-> "star", start |-> 0, end |-> 0, size |-> size]

\* what _send_file puts on the wire: the status, the Content-Length header
\* (hasLength says whether there is one), Content-Range, the body
Answer(status, hasLength, length, crange, body) ==
    [status |-> status, hasLength |-> hasLength, length |-> length,
     crange |-> crange, body |-> body]

NoAnswer == Answer(0, FALSE, 0, NoContentRange, <<>>)

FileNotFound == Answer(404, FALSE, 0, NoContentRange, <<>>)

\* src/server.py:295, a start that the test "start > file_size" misses
PastEnd(start, size) == start > size

\* src/server.py:295: if start >= file_size
Unsatisfiable(start, size) == start >= size

\* src/server.py:314-323: seek(start), then read and write while remaining > 0
\* and the file has bytes left
Copy(data, start, length) ==
    IF length <= 0 \/ start >= Len(data)
    THEN <<>>
    ELSE SubSeq(data, start + 1,
                IF start + length <= Len(data) THEN start + length ELSE Len(data))

\* src/server.py:275-323
SendFile(f, h) ==
    IF ~f.ex
    THEN FileNotFound
    ELSE LET size == Len(f.data)
             ranged == h.kind = "bytes"
             start == IF ranged /\ h.s # Empty THEN h.s ELSE 0
             end0 == IF ranged /\ h.e # Empty THEN h.e ELSE size - 1
             end == IF ranged /\ end0 >= size THEN size - 1 ELSE end0
             length == end - start + 1
         IN  IF ranged /\ Unsatisfiable(start, size)
             THEN Answer(416, FALSE, 0, ContentRangeStar(size), <<>>)
             ELSE Answer(IF ranged THEN 206 ELSE 200, TRUE, length,
                         IF ranged THEN ContentRange(start, end, size)
                                   ELSE NoContentRange,
                         Copy(f.data, start, length))

\* no file was asked for yet
NoDownload == [file |-> NoFile, hdr |-> NoRange, resp |-> NoAnswer]

\* ---- POST /api/zip: _send_zip, src/server.py:532-566 ----

\* the paths below the share root that may exist (relative to the root)
ZipNodes == {<<"a">>, <<"b">>, <<"a", "a">>, <<"a", "b">>, <<"a", "a", "a">>}

\* the share root's content: every path is absent, a file or a directory,
\* and what exists lies in a directory
Trees ==
    {t \in [ZipNodes -> {"none", "file", "dir"}] :
        \A n \in ZipNodes :
            (Len(n) > 1 /\ t[n] # "none") => t[Front(n)] = "dir"}

NoTree == [n \in ZipNodes |-> "none"]

\* is_dir / is_file of a resolved path below the root, src/server.py:537, 554
KindAt(t, n) ==
    IF n = <<>> THEN "dir" ELSE IF n \in ZipNodes THEN t[n] ELSE "none"

\* the orders in which a directory may enumerate its names (os.walk lists
\* them as the filesystem returns them)
DirOrders == {<<"a", "b">>, <<"b", "a">>}

\* the paths a request may list, as strings split at "/": the nodes, the
\* root itself ("") and the root's parent ("..")
ZipPaths == ZipNodes \cup {<<"">>, <<"..">>}

\* the longest list of a request
MaxPaths == 2

ZipLists == SeqsUpTo(ZipPaths, MaxPaths)

\* PurePath(rel).parts: empty and "." segments are dropped
PathParts(relp) == SelectSeq(relp, LAMBDA c : c \notin {"", "."})

\* an archive member: its name split at "/", and whether it is a directory
\* entry (name ending in "/", written with writestr) or a file
ZipEntry(name, isDir) == [name |-> name, dir |-> isDir]

\* src/server.py:538-540: f"{Path(rel).as_posix().rstrip('/')}/"
DirArcname(relp) == IF PathParts(relp) = <<>> THEN <<".">> ELSE PathParts(relp)

\* a walk that writes no entry for the directories it meets
WalkNoDirs(base, sub, dirs) == <<>>

\* src/server.py:548-552: an explicit entry for every directory of dirs
WalkDirs(base, sub, dirs) ==
    [i \in 1..Len(dirs) |-> ZipEntry(base \o Append(sub, dirs[i]), TRUE)]

\* src/server.py:543-546: zf.write(abs_file, Path(rel) / relative_to(path))
WalkFiles(base, sub, files) ==
    [i \in 1..Len(files) |-> ZipEntry(base \o Append(sub, files[i]), FALSE)]

RECURSIVE Flat(_)
Flat(ss) == IF ss = <<>> THEN <<>> ELSE Head(ss) \o Flat(Tail(ss))

\* os.walk(path), src/server.py:541-552: top-down from the requested
\* directory r; sub is the walked directory relative to r
RECURSIVE Walk(_, _, _, _, _)
Walk(t, base, r, sub, ord) ==
    LET names == SelectSeq(ord, LAMBDA c : KindAt(t, r \o Append(sub, c)) # "none")
        files == SelectSeq(names, LAMBDA c : KindAt(t, r \o Append(sub, c)) = "file")
        dirs  == SelectSeq(names, LAMBDA c : KindAt(t, r \o Append(sub, c)) = "dir")
    IN  WalkFiles(base, sub, files) \o WalkDirs(base, sub, dirs)
            \o Flat([i \in 1..Len(dirs) |-> Walk(t, base, r, Append(sub, dirs[i]), ord)])

\* the resolved path relative to the share root
BelowRoot(p) == SubSeq(p, Len(ShareRoot) + 1, Len(p))

\* src/server.py:535-557, one turn of the loop over rel_paths: the members
\* added for rel, or the exception raised
ZipMembers(t, relp, ord) ==
    LET j == SafeJoin(ShareRoot, relp, <<>>) IN
    IF j = PathEscape THEN [raise |-> "PermissionError", add |-> <<>>]
    ELSE LET n == BelowRoot(j.path) IN
         CASE KindAt(t, n) = "dir" ->
                [raise |-> "", add |-> <<ZipEntry(DirArcname(relp), TRUE)>>
                                         \o Walk(t, PathParts(relp), n, <<>>, ord)]
           [] KindAt(t, n) = "file" ->
                [raise |-> "", add |-> <<ZipEntry(NormPath(StripSlashes(relp)), FALSE)>>]
           [] OTHER -> [raise |-> "FileNotFoundError", add |-> <<>>]

\* what the handler wrote to the connection: a status line with its
\* headers, then the body
ZipError(code) == <<[status |-> code, length |-> 0]>>

ZipOk(data) == <<[status |-> 200, length |-> Len(data)], [bytes |-> data]>>

\* no archive was asked for yet
NoArchive ==
    [pc |-> "idle", tree |-> NoTree, ord |-> <<"a", "b">>, paths |-> <<>>,
     pos |-> 1, spool |-> <<>>, wire |-> <<>>]

\* a handler that writes each member to the connection as it is added
Streamed(a, add) == [a EXCEPT !.wire = @ \o <<[bytes |-> add]>>, !.pos = @ + 1]

\* zf.write / zf.writestr into the SpooledTemporaryFile, src/server.py:533-555
Spooled(a, add) == [a EXCEPT !.spool = @ \o add, !.pos = @ + 1]

\* ---- GET /api/list: _list_directory, src/server.py:251-273 ----

\* the names a listed directory may hold
Names == {"a", "A", "b", "B", ".c"}

\* str.lower of a name
Lower(n) == CASE n = "A" -> "a" [] n = "B" -> "b" [] OTHER -> n

\* the lower-cased names in the order of str comparison ("." sorts before
\* the letters)
LowerOrder == <<".c", "a", "b">>

Rank(n) == CHOOSE k \in 1..Len(LowerOrder) : LowerOrder[k] = Lower(n)

\* name.startswith(".")
Dotted(n) == n \in {".c"}

\* what a name of the directory is: a file, a directory, or a symbolic link
\* whose target does not exist
EntryKinds == {"file", "dir", "dangling"}

\* the most names a listed directory holds
MaxEntries == 3

\* a directory as iterdir enumerates it: names in any order, none twice
Directories ==
    {d \in SeqsUpTo([name : Names, kind : EntryKinds], MaxEntries) :
        \A i, k \in 1..Len(d) : i # k => d[i].name # d[k].name}

\* Path.is_dir follows links and is False for a link without target
IsDir(e) == e.kind = "dir"

\* the sort key (not p.is_dir(), p.name.lower()), src/server.py:258
KeyLess(x, y) ==
    \/ IsDir(x) /\ ~IsDir(y)
    \/ IsDir(x) = IsDir(y) /\ Rank(x.name) < Rank(y.name)

\* sorted(): entries with equal keys stay in the order of the input
RECURSIVE Insert(_, _)
Insert(sorted, e) ==
    IF sorted = <<>> THEN <<e>>
    ELSE IF KeyLess(e, Head(sorted)) THEN <<e>> \o sorted
    ELSE <<Head(sorted)>> \o Insert(Tail(sorted), e)

RECURSIVE SortedByKey(_)
SortedByKey(d) ==
    IF d = <<>> THEN <<>> ELSE Insert(SortedByKey(Front(d)), Last(d))

\* one entry of the payload (size and modified are not kept)
Listed(e) == [name |-> e.name, type |-> IF IsDir(e) THEN "dir" ELSE "file"]

\* _list_directory with do_GET, src/server.py:251-273 and 356-366:
\* entry.stat() of a dangling link raises FileNotFoundError, which do_GET
\* answers with 404
ListDirectory(d) ==
    LET shown == SelectSeq(SortedByKey(d), LAMBDA e : ~Dotted(e.name))
    IN  IF \E k \in 1..Len(shown) : shown[k].kind = "dangling"
        THEN [code |-> 404, entries |-> <<>>]
        ELSE [code |-> 200, entries |-> [k \in 1..Len(shown) |-> Listed(shown[k])]]

\* no listing was asked for yet
NoListing == [dir |-> <<>>, resp |-> [code |-> 0, entries |-> <<>>]]

\* ---- the endpoints that hand a client path to _safe_join ----

\* GET /api/list, GET /files/, POST /api/upload/session, /api/mkdir,
\* /api/delete, /api/move, /api/zip
Endpoints == {"list", "files", "session", "mkdir", "delete", "move", "zip"}

\* the endpoints that start with _require_write, src/server.py:390, 408,
\* 424, 446
WriteEndpoints == {"session", "mkdir", "delete", "move"}

\* the endpoints whose handler has an "except PermissionError" around the
\* call, src/server.py:363, 402, 418, 442, 462, 480; _send_file is called
\* bare, src/server.py:352-355
Catching == Endpoints \ {"files"}

\* what the handler makes of the result j of _safe_join: 403 for a caught
\* PermissionError, no response at all for an uncaught one (the thread dies
\* and the connection is closed), else the endpoint goes on (200 stands for
\* whatever it answers then)
PathAnswer(ep, j) ==
    IF j = PathEscape
    THEN IF ep \in Catching THEN 403 ELSE 0
    ELSE 200

\* no such request was made yet
NoRequest == [ep |-> "", code |-> 0]

ReadIdle == dl = NoDownload /\ arc = NoArchive /\ lst = NoListing /\ ans = NoRequest

ClientIdle == cli = CliOff /\ NoHistory /\ ReadIdle

\* one target and one session in the runs with failures and with restarts
Init == PathIdle /\ StoreInit({"t1"}, MaxSessions) /\ ClientIdle

\* two targets and MaxSessions sessions in the runs that follow resume, on
\* a server started without --allow-overwrite
InitResume ==
    /\ PathIdle
    /\ StoreInit({"t1", "t2"}, 1)
    /\ ClientIdle
    /\ ~cfg.overwrite

\* the runs of _safe_join: a server started with the defaults, which serves
\* no upload
InitPath ==
    /\ PathInit
    /\ StoreInit({"t1"}, 1)
    /\ ClientIdle
    /\ cfg.read_only
    /\ ~cfg.overwrite

---------------------------------------------------------------------------
(* Steps shared by the handlers. *)

\* the worker has its response ready (or has died on an exception)
Reply(w, r, out) ==
    req' = [req EXCEPT ![w] = [r EXCEPT !.pc = "respond", !.out = out,
                                        !.chunk = <<>>, !.m = NoMeta]]

Goto(w, pc) == req' = [req EXCEPT ![w].pc = pc]

Holds(w, pc) == req[w].pc = pc /\ lock = w

\* _send_json / send_error: the response goes out and the worker is free
SendResponse(w) ==
    /\ req[w].pc = "respond"
    /\ req' = [req EXCEPT ![w] = IdleReq]
    /\ UNCHANGED <<cfg, meta, metaDisk, part, partDisk, share, lock, nextId>>

\* _store_state, src/server.py:102: open(state_file, "w") creates the file or
\* cuts it to zero length; until the dump is flushed json.load fails on it.
\* A new file's directory entry is on disk at once, the truncation of an old
\* one reaches the disk with the next write-back or fsync.
StoreOpen(w) ==
    /\ Holds(w, "store_open")
    /\ meta' = [meta EXCEPT ![req[w].id] = TornMeta]
    /\ metaDisk' = IF metaDisk[req[w].id].st = "none"
                   THEN [metaDisk EXCEPT ![req[w].id] = TornMeta]
                   ELSE metaDisk
    /\ Goto(w, "store_dump")
    /\ UNCHANGED <<cfg, part, partDisk, share, lock, nextId>>

\* _store_state, src/server.py:103-104: json.dump and flush
StoreDump(w) ==
    /\ Holds(w, "store_dump")
    /\ meta' = [meta EXCEPT ![req[w].id] = req[w].m]
    /\ req' = [req EXCEPT ![w].pc = "store_sync", ![w].io = Append(@, "dump")]
    /\ UNCHANGED <<cfg, metaDisk, part, partDisk, share, lock, nextId>>

\* a variant of unlink that leaves the file where it is
Kept(files, id, none) == files

\* a variant of unlink that empties the directory
UnlinkAll(files, id, none) == [i \in DOMAIN files |-> none]

\* Path.unlink, as _delete_state calls it (src/server.py:187-189): the file
\* is gone, from the directory and so from the disk
Unlink(files, id, none) == [files EXCEPT ![id] = none]

\* a variant of the durability barrier that returns without reaching the disk
NoSync(cache, disk, id) == disk

\* os.fsync: the file's cached content is on disk
Fsync(cache, disk, id) == [disk EXCEPT ![id] = cache[id]]

\* a variant of the last step of _store_state that returns without the fsync
StoreNoSync(w) ==
    /\ Holds(w, "store_sync")
    /\ Goto(w, IF req[w].op = "create" THEN "touch" ELSE "fin")
    /\ UNCHANGED <<cfg, meta, metaDisk, part, partDisk, share, lock, nextId>>

\* _store_state, src/server.py:105: os.fsync; then back in the caller,
\* create_session (line 153) or append_chunk (line 172)
StoreSync(w) ==
    /\ Holds(w, "store_sync")
    /\ metaDisk' = Fsync(meta, metaDisk, req[w].id)
    /\ req' = [req EXCEPT ![w].pc = IF req[w].op = "create" THEN "touch" ELSE "fin",
                          ![w].io = Append(@, "fsync_meta")]
    /\ UNCHANGED <<cfg, meta, part, partDisk, share, lock, nextId>>

---------------------------------------------------------------------------
(* POST /api/upload/session: do_POST, src/server.py:389-406, and            *)
(* create_session, src/server.py:124-154.                                  *)

\* the request is refused in read-only mode (_require_write); else, under the
\* lock, a resume request returns a session with the same target and size if
\* there is one, and every other request starts a new session
DoPost(w, target, size, resume, ow) ==
    /\ req[w].pc = "idle"
    /\ LET r == [IdleReq EXCEPT !.op = "create", !.resume = resume] IN
       IF cfg.read_only
       THEN /\ Reply(w, r, Error(403, ReadOnlyMode))
            /\ UNCHANGED <<lock, nextId>>
       ELSE /\ lock = "free"
            /\ IF resume /\ ResumeMatches(target, size) # {}
               THEN \E i \in ResumeMatches(target, size) :
                       /\ Reply(w, r, Resp(201, "", PublicState(meta[i])))
                       /\ UNCHANGED <<lock, nextId>>
               ELSE /\ nextId <= MaxSessions
                    /\ req' = [req EXCEPT ![w] =
                          [r EXCEPT !.pc = "store_open", !.id = nextId,
                                    !.m = NewMeta(nextId, target, size,
                                                  EffectiveOverwrite(ow))]]
                    /\ lock' = w
                    /\ nextId' = nextId + 1
    /\ UNCHANGED <<cfg, meta, metaDisk, part, partDisk, share>>

\* create_session, src/server.py:153-154: temp_file.touch() and the return
Touch(w) ==
    /\ Holds(w, "touch")
    /\ LET id == req[w].id IN
       /\ part' = [part EXCEPT ![id] = IF @.ex THEN @ ELSE File(<<>>)]
       /\ partDisk' = [partDisk EXCEPT ![id] = IF @.ex THEN @ ELSE File(<<>>)]
       /\ Reply(w, req[w], Resp(201, "", PublicState(req[w].m)))
    /\ lock' = "free"
    /\ UNCHANGED <<cfg, meta, metaDisk, share, nextId>>

---------------------------------------------------------------------------
(* PUT /api/upload/<id>: do_PUT, src/server.py:485-517, and append_chunk,   *)
(* src/server.py:156-175.                                                  *)

\* the offsets a Content-Range header can name (the header's regex admits
\* no sign): one past the largest size, so that a range can overrun
Offsets == 0..(MaxSize + 1)

\* the bodies rfile.read(length) can return: length bytes, or fewer when the
\* connection ends first; read(-1) reads whatever comes until it ends
Bodies(length) ==
    IF length >= 0 THEN SeqsUpTo(Bytes, length) ELSE SeqsUpTo(Bytes, 1)

\* whether the body of the request is ever written: when the request is
\* refused its bytes are read and dropped
BodyRead(id, start, end, lenOk) ==
    /\ ~cfg.read_only
    /\ lenOk
    /\ meta[id].st = "ok"
    /\ AppendCheck(meta[id], start, end + 1) = "ok"

\* a variant of the entry into append_chunk that does not wait for the lock
DoPutNoLock(w, id, start, end, lenOk, chunk) ==
    /\ req[w].pc = "idle"
    /\ LET r == [IdleReq EXCEPT !.op = "put", !.id = id, !.start = start,
                                !.endx = end + 1]
           a == [r EXCEPT !.pc = "write", !.chunk = chunk, !.m = meta[id]]
           m == meta[id]
       IN
       IF cfg.read_only
       THEN Reply(w, r, Error(403, ReadOnlyMode)) /\ UNCHANGED lock
       ELSE IF ~lenOk
       THEN Reply(w, r, Error(400, LengthMismatch)) /\ UNCHANGED lock
       ELSE IF m.st = "none"
       THEN Reply(w, r, Error(404, SessionNotFound)) /\ UNCHANGED lock
       ELSE IF m.st = "torn"
       THEN Reply(w, r, Error(400, "JSONDecodeError")) /\ UNCHANGED lock
       ELSE IF AppendCheck(m, start, end + 1) # "ok"
       THEN Reply(w, r, Error(400, AppendCheck(m, start, end + 1)))
            /\ UNCHANGED lock
       ELSE /\ req' = [req EXCEPT ![w] = a]
            /\ lock' = w
    /\ UNCHANGED <<cfg, meta, metaDisk, part, partDisk, share, nextId>>

\* the header checks of do_PUT, the read of the body, and the entry into
\* append_chunk: the lock, _load_state and the offset and range checks.
\* lenOk: Content-Length equals end - start + 1.
DoPut(w, id, start, end, lenOk, chunk) ==
    /\ req[w].pc = "idle"
    /\ LET r == [IdleReq EXCEPT !.op = "put", !.id = id, !.start = start,
                                !.endx = end + 1]
           a == [r EXCEPT !.pc = "write", !.chunk = chunk, !.m = meta[id]]
           m == meta[id]
       IN
       IF cfg.read_only
       THEN Reply(w, r, Error(403, ReadOnlyMode)) /\ UNCHANGED lock
       ELSE IF ~lenOk
       THEN Reply(w, r, Error(400, LengthMismatch)) /\ UNCHANGED lock
       ELSE /\ lock = "free"
            /\ IF m.st = "none"
               THEN Reply(w, r, Error(404, SessionNotFound)) /\ UNCHANGED lock
               ELSE IF m.st = "torn"
               THEN Reply(w, r, Error(400, "JSONDecodeError")) /\ UNCHANGED lock
               ELSE IF AppendCheck(m, start, end + 1) # "ok"
               THEN Reply(w, r, Error(400, AppendCheck(m, start, end + 1)))
                    /\ UNCHANGED lock
               ELSE /\ req' = [req EXCEPT ![w] = a]
                    /\ lock' = w
    /\ UNCHANGED <<cfg, meta, metaDisk, part, partDisk, share, nextId>>

\* append_chunk, src/server.py:165-168: open the staging file "r+b", seek,
\* write, flush; a missing staging file is a FileNotFoundError, which do_PUT
\* reports as a missing session
Write(w) ==
    /\ Holds(w, "write")
    /\ LET id == req[w].id IN
       IF ~part[id].ex
       THEN /\ Reply(w, req[w], Error(404, SessionNotFound))
            /\ lock' = "free"
            /\ UNCHANGED part
       ELSE /\ part' = [part EXCEPT ![id] =
                           File(WriteAt(@.data, req[w].start, req[w].chunk))]
            /\ req' = [req EXCEPT ![w].pc = "sync_part", ![w].io = Append(@, "write")]
            /\ UNCHANGED lock
    /\ UNCHANGED <<cfg, meta, metaDisk, partDisk, share, nextId>>

\* a variant of the step that takes the overwrite flag of the record from the
\* configuration of the server
SyncPartDefaults(w) ==
    /\ Holds(w, "sync_part")
    /\ partDisk' = Fsync(part, partDisk, req[w].id)
    /\ req' = [req EXCEPT ![w].pc = "store_open",
                          ![w].m.received = req[w].endx,
                          ![w].m.overwrite = cfg.overwrite,
                          ![w].io = Append(@, "fsync_part")]
    /\ UNCHANGED <<cfg, meta, metaDisk, part, share, lock, nextId>>

\* append_chunk, src/server.py:169-170: os.fsync of the staging file, then
\* meta["received"] = end_exclusive
SyncPart(w) ==
    /\ Holds(w, "sync_part")
    /\ partDisk' = Fsync(part, partDisk, req[w].id)
    /\ req' = [req EXCEPT ![w].pc = "store_open",
                          ![w].m.received = req[w].endx,
                          ![w].io = Append(@, "fsync_part")]
    /\ UNCHANGED <<cfg, meta, metaDisk, part, share, lock, nextId>>

\* append_chunk, src/server.py:172-175, with the test of _finalize,
\* src/server.py:178-181: a session that is not complete returns its view; a
\* complete one goes on to the move unless the target exists and the session
\* may not overwrite it
Fin(w) ==
    /\ Holds(w, "fin")
    /\ LET m == req[w].m IN
       IF ~FinalizeDue(m)
       THEN Reply(w, req[w], Resp(200, "", PublicState(m))) /\ lock' = "free"
       ELSE IF share[m.target_path].ex /\ ~m.overwrite
       THEN Reply(w, req[w], Error(400, TargetExists)) /\ lock' = "free"
       ELSE Goto(w, "move") /\ UNCHANGED lock
    /\ UNCHANGED <<cfg, meta, metaDisk, part, partDisk, share, nextId>>

\* _finalize, src/server.py:182-183: shutil.move of the staging file onto
\* the target, replacing what is there
Move(w) ==
    /\ Holds(w, "move")
    /\ LET id == req[w].id IN
       IF ~part[id].ex
       THEN /\ Reply(w, req[w], Error(404, SessionNotFound))
            /\ lock' = "free"
            /\ UNCHANGED <<part, partDisk, share>>
       ELSE /\ share' = [share EXCEPT ![req[w].m.target_path] = part[id]]
            /\ part' = [part EXCEPT ![id] = NoFile]
            /\ partDisk' = [partDisk EXCEPT ![id] = NoFile]
            /\ Goto(w, "delete")
            /\ UNCHANGED lock
    /\ UNCHANGED <<cfg, meta, metaDisk, nextId>>

\* _finalize, src/server.py:184, _delete_state, and the return of
\* append_chunk, src/server.py:174-175
DeleteState(w) ==
    /\ Holds(w, "delete")
    /\ LET id == req[w].id IN
       /\ meta' = Unlink(meta, id, NoMeta)
       /\ metaDisk' = Unlink(metaDisk, id, NoMeta)
       /\ part' = Unlink(part, id, NoFile)
       /\ partDisk' = Unlink(partDisk, id, NoFile)
    /\ Reply(w, req[w], Resp(200, "", PublicState(req[w].m)))
    /\ lock' = "free"
    /\ UNCHANGED <<cfg, share, nextId>>

---------------------------------------------------------------------------
(* GET /api/upload/<id>/status and DELETE /api/upload/<id>.                 *)

\* do_GET, src/server.py:376-384, and status, src/server.py:191-194; a
\* record json.load cannot read raises JSONDecodeError, which do_GET does
\* not catch
DoStatus(w, id) ==
    /\ req[w].pc = "idle"
    /\ lock = "free"
    /\ LET r == [IdleReq EXCEPT !.op = "status", !.id = id] IN
       Reply(w, r,
             CASE meta[id].st = "none" -> Error(404, SessionNotFound)
               [] meta[id].st = "torn" -> NoResponse("JSONDecodeError")
               [] OTHER -> Resp(200, "", PublicState(meta[id])))
    /\ UNCHANGED <<cfg, meta, metaDisk, part, partDisk, share, lock, nextId>>

\* do_DELETE, src/server.py:519-525 (no _require_write), cancel and the
\* first unlink of _delete_state, src/server.py:187-189: the record
DoCancel(w, id) ==
    /\ req[w].pc = "idle"
    /\ lock = "free"
    /\ meta' = Unlink(meta, id, NoMeta)
    /\ metaDisk' = Unlink(metaDisk, id, NoMeta)
    /\ req' = [req EXCEPT ![w] = [IdleReq EXCEPT !.pc = "cancel_part",
                                                 !.op = "cancel", !.id = id]]
    /\ lock' = w
    /\ UNCHANGED <<cfg, part, partDisk, share, nextId>>

\* a variant of the end of cancel that answers without the second unlink
CancelKeepPart(w) ==
    /\ Holds(w, "cancel_part")
    /\ Reply(w, req[w], Resp(200, "", NoBody))
    /\ lock' = "free"
    /\ UNCHANGED <<cfg, meta, metaDisk, part, partDisk, share, nextId>>

\* the second unlink of _delete_state, the staging file, and the response of
\* do_DELETE, src/server.py:528
CancelPart(w) ==
    /\ Holds(w, "cancel_part")
    /\ part' = Unlink(part, req[w].id, NoFile)
    /\ partDisk' = Unlink(partDisk, req[w].id, NoFile)
    /\ Reply(w, req[w], Resp(200, "", NoBody))
    /\ lock' = "free"
    /\ UNCHANGED <<cfg, meta, metaDisk, share, nextId>>

---------------------------------------------------------------------------
(* The other writers of the share root, which take no lock.                *)

\* POST /api/move, src/server.py:447-466: shutil.move(source, dest) of a
\* file that lies elsewhere in the share onto t, replacing what is there
SharePut(t) ==
    /\ ~cfg.read_only
    /\ share' = [share EXCEPT ![t] = File(<<"z">>)]
    /\ UNCHANGED <<cfg, meta, metaDisk, part, partDisk, lock, req, nextId>>

\* POST /api/delete, src/server.py:423-446: target.unlink()
ShareDelete(t) ==
    /\ ~cfg.read_only
    /\ share[t].ex
    /\ share' = [share EXCEPT ![t] = NoFile]
    /\ UNCHANGED <<cfg, meta, metaDisk, part, partDisk, lock, req, nextId>>

---------------------------------------------------------------------------
(* Failures of the storage medium and of the process.                      *)

\* the steps of a store operation that touch the disk
DiskSteps ==
    {"write", "sync_part", "store_open", "store_dump", "store_sync", "touch",
     "move", "delete", "cancel_part"}

\* a step that touches the disk raises OSError (disk full, I/O error) before
\* it has any effect: the with block releases the lock and no handler
\* catches the error, so the connection closes without a response
IOFail(w) ==
    /\ req[w].pc \in DiskSteps
    /\ lock = w
    /\ Reply(w, req[w], NoResponse("OSError"))
    /\ lock' = "free"
    /\ UNCHANGED <<cfg, meta, metaDisk, part, partDisk, share, nextId>>

\* what a restart finds: after the process was killed every file is as the
\* page cache had it (keep); after a power loss a file that was not synced is
\* as the cache had it or as the disk had it
Survive(cache, disk, keep) == IF keep THEN cache ELSE disk

\* the server stops at any point and a new UploadManager starts over the same
\* state directory: the workers and the lock are gone, the files stay; the
\* new process is started with whatever arguments its command line has
Crash ==
    /\ \E w \in Workers : req[w].pc # "idle"
    /\ \E km, kp \in BOOLEAN :
          /\ meta' = Survive(meta, metaDisk, km)
          /\ metaDisk' = Survive(meta, metaDisk, km)
          /\ part' = Survive(part, partDisk, kp)
          /\ partDisk' = Survive(part, partDisk, kp)
    /\ req' = [w \in Workers |-> IdleReq]
    /\ lock' = "free"
    /\ cfg' \in Configs
    /\ UNCHANGED <<share, nextId>>

\* the same between two operations
Restart ==
    /\ \A w \in Workers : req[w].pc = "idle"
    /\ \E km, kp \in BOOLEAN :
          /\ meta' = Survive(meta, metaDisk, km)
          /\ metaDisk' = Survive(meta, metaDisk, km)
          /\ part' = Survive(part, partDisk, kp)
          /\ partDisk' = Survive(part, partDisk, kp)
    /\ cfg' \in Configs
    /\ UNCHANGED <<share, lock, req, nextId>>

---------------------------------------------------------------------------
(* The specifications. *)

\* the bodies a chunk upload is tried with: every body the connection can
\* deliver when the chunk is written, one when the request is refused
PutBodies(id, start, end, lenOk) ==
    IF BodyRead(id, start, end, lenOk) THEN Bodies(end - start + 1) ELSE {<<>>}

\* gone follows the handlers: a session is finalized when _finalize returns
TrackGone ==
    gone' = gone \cup
        {i \in IDs : \E w \in Workers :
            /\ req[w].pc = "delete"
            /\ req[w].id = i
            /\ req'[w].pc = "respond"
            /\ req'[w].out.code = 200}

\* cancelled follows the handlers: cancel has returned for an id that
\* create_session had issued
TrackCancelled ==
    cancelled' = cancelled \cup
        {i \in IDs : \E w \in Workers :
            /\ req[w].pc = "cancel_part"
            /\ req[w].id = i
            /\ i < nextId
            /\ req'[w].pc = "respond"
            /\ req'[w].out.code = 200}

\* nothing but the store changes
Quiet == TrackGone /\ TrackCancelled /\ UNCHANGED <<pathVars, readVars, cli, lastResume, boot>>

\* boot follows the restarts
TrackBoot == boot' = meta' /\ UNCHANGED <<pathVars, readVars, cli, lastResume, gone, cancelled>>

\* every execution of the server, failures of disk and process included
Next ==
    \/ \E w \in Workers, t \in Targets, n \in Sizes, r \in BOOLEAN, ow \in OverwriteArgs :
          DoPost(w, t, n, r, ow) /\ Quiet
    \/ \E w \in Workers : Touch(w) /\ Quiet
    \/ \E w \in Workers, i \in IDs, s \in Offsets, e \in Offsets, ok \in BOOLEAN :
          \E c \in PutBodies(i, s, e, ok) : DoPut(w, i, s, e, ok, c) /\ Quiet
    \/ \E w \in Workers : Write(w) /\ Quiet
    \/ \E w \in Workers : SyncPart(w) /\ Quiet
    \/ \E w \in Workers : StoreOpen(w) /\ Quiet
    \/ \E w \in Workers : StoreDump(w) /\ Quiet
    \/ \E w \in Workers : StoreSync(w) /\ Quiet
    \/ \E w \in Workers : Fin(w) /\ Quiet
    \/ \E w \in Workers : Move(w) /\ Quiet
    \/ \E w \in Workers : DeleteState(w) /\ Quiet
    \/ \E w \in Workers, i \in IDs : DoStatus(w, i) /\ Quiet
    \/ \E w \in Workers, i \in IDs : DoCancel(w, i) /\ Quiet
    \/ \E w \in Workers : CancelPart(w) /\ Quiet
    \/ \E w \in Workers : SendResponse(w) /\ Quiet
    \/ \E t \in Targets : SharePut(t) /\ Quiet
    \/ \E t \in Targets : ShareDelete(t) /\ Quiet
    \/ \E w \in Workers : IOFail(w) /\ Quiet
    \/ Crash /\ Quiet
    \/ Restart /\ Quiet

Spec == Init /\ [][Next]_vars

\* the executions in which the process stops only between two operations and
\* the disk does not fail
NextRestart ==
    \/ \E w \in Workers, t \in Targets, n \in Sizes, r \in BOOLEAN, ow \in OverwriteArgs :
          DoPost(w, t, n, r, ow) /\ Quiet
    \/ \E w \in Workers : Touch(w) /\ Quiet
    \/ \E w \in Workers, i \in IDs, s \in Offsets, e \in Offsets, ok \in BOOLEAN :
          \E c \in PutBodies(i, s, e, ok) : DoPut(w, i, s, e, ok, c) /\ Quiet
    \/ \E w \in Workers : Write(w) /\ Quiet
    \/ \E w \in Workers : SyncPart(w) /\ Quiet
    \/ \E w \in Workers : StoreOpen(w) /\ Quiet
    \/ \E w \in Workers : StoreDump(w) /\ Quiet
    \/ \E w \in Workers : StoreSync(w) /\ Quiet
    \/ \E w \in Workers : Fin(w) /\ Quiet
    \/ \E w \in Workers : Move(w) /\ Quiet
    \/ \E w \in Workers : DeleteState(w) /\ Quiet
    \/ \E w \in Workers, i \in IDs : DoStatus(w, i) /\ Quiet
    \/ \E w \in Workers, i \in IDs : DoCancel(w, i) /\ Quiet
    \/ \E w \in Workers : CancelPart(w) /\ Quiet
    \/ \E w \in Workers : SendResponse(w) /\ Quiet
    \/ \E t \in Targets : SharePut(t) /\ Quiet
    \/ \E t \in Targets : ShareDelete(t) /\ Quiet
    \/ Restart /\ TrackBoot

SpecRestart == Init /\ [][NextRestart]_vars

\* a create with resume=true has just returned a session to worker w
ResumeReply(w) ==
    /\ req[w].pc # "respond"
    /\ req'[w].pc = "respond"
    /\ req'[w].op = "create"
    /\ req'[w].resume
    /\ req'[w].out.code = 201

\* lastResume follows the handlers: the session the last resume=true create
\* returned, until that session is cancelled or finalized
TrackResume ==
    lastResume' =
        IF \E w \in Workers : ResumeReply(w)
        THEN LET w == CHOOSE x \in Workers : ResumeReply(x)
                 b == req'[w].out.body
             IN  [target |-> b.target_path, size |-> b.total_size, id |-> b.upload_id]
        ELSE IF lastResume.id # 0 /\ meta'[lastResume.id].st = "none"
        THEN NoResume
        ELSE lastResume

Tracked ==
    TrackResume /\ TrackGone /\ UNCHANGED <<pathVars, readVars, cli, boot, cancelled>>

\* the executions of the upload endpoints alone, with the history of resume
NextResume ==
    \/ \E w \in Workers, t \in Targets, n \in Sizes, r \in BOOLEAN, ow \in OverwriteArgs :
          DoPost(w, t, n, r, ow) /\ Tracked
    \/ \E w \in Workers : Touch(w) /\ Tracked
    \/ \E w \in Workers, i \in IDs, s \in Offsets, e \in Offsets, ok \in BOOLEAN :
          \E c \in PutBodies(i, s, e, ok) : DoPut(w, i, s, e, ok, c) /\ Tracked
    \/ \E w \in Workers : Write(w) /\ Tracked
    \/ \E w \in Workers : SyncPart(w) /\ Tracked
    \/ \E w \in Workers : StoreOpen(w) /\ Tracked
    \/ \E w \in Workers : StoreDump(w) /\ Tracked
    \/ \E w \in Workers : StoreSync(w) /\ Tracked
    \/ \E w \in Workers : Fin(w) /\ Tracked
    \/ \E w \in Workers : Move(w) /\ Tracked
    \/ \E w \in Workers : DeleteState(w) /\ Tracked
    \/ \E w \in Workers, i \in IDs : DoStatus(w, i) /\ Tracked
    \/ \E w \in Workers, i \in IDs : DoCancel(w, i) /\ Tracked
    \/ \E w \in Workers : CancelPart(w) /\ Tracked
    \/ \E w \in Workers : SendResponse(w) /\ Tracked

SpecResume == InitResume /\ [][NextResume]_vars

---------------------------------------------------------------------------
(* Two connections at once. *)

\* the payload byte each connection sends, so that the staging file shows
\* whose chunk it holds
PairByte == [w \in {"w1", "w2"} |-> IF w = "w1" THEN "a" ELSE "b"]

\* the body of a chunk upload of worker w: the whole range when it is written
PairBody(w, id, start, end, lenOk) ==
    IF BodyRead(id, start, end, lenOk)
    THEN [k \in 1..(end - start + 1) |-> PairByte[w]]
    ELSE <<>>

\* a read-write server with two worker threads and one session
InitPair ==
    /\ PathIdle
    /\ StoreInitPair({"t1"}, MaxSessions)
    /\ ClientIdle
    /\ ~cfg.read_only
    /\ ~cfg.overwrite

\* the upload endpoints on two connections, and /api/move beside them
NextPair ==
    \/ \E w \in Workers, t \in Targets, n \in 1..MaxSize, ow \in OverwriteArgs :
          DoPost(w, t, n, FALSE, ow) /\ Quiet
    \/ \E w \in Workers : Touch(w) /\ Quiet
    \/ \E w \in Workers, i \in IDs, s \in Offsets, e \in Offsets, ok \in BOOLEAN :
          DoPut(w, i, s, e, ok, PairBody(w, i, s, e, ok)) /\ Quiet
    \/ \E w \in Workers : Write(w) /\ Quiet
    \/ \E w \in Workers : SyncPart(w) /\ Quiet
    \/ \E w \in Workers : StoreOpen(w) /\ Quiet
    \/ \E w \in Workers : StoreDump(w) /\ Quiet
    \/ \E w \in Workers : StoreSync(w) /\ Quiet
    \/ \E w \in Workers : Fin(w) /\ Quiet
    \/ \E w \in Workers : Move(w) /\ Quiet
    \/ \E w \in Workers : DeleteState(w) /\ Quiet
    \/ \E w \in Workers : SendResponse(w) /\ Quiet
    \/ \E t \in Targets : SharePut(t) /\ Quiet

SpecPair == InitPair /\ [][NextPair]_vars

\* a read-write server with two worker threads, two targets and up to
\* MaxSessions sessions
InitIso ==
    /\ PathIdle
    /\ StoreInitPair({"t1", "t2"}, 1)
    /\ ClientIdle
    /\ ~cfg.read_only
    /\ ~cfg.overwrite

\* the session each connection uploads to, asks about and cancels
SessionOf == [w \in {"w1", "w2"} |-> IF w = "w1" THEN 1 ELSE 2]

\* the four session operations on two connections, each connection working
\* on a session of its own
NextIso ==
    \/ \E w \in Workers, t \in Targets, n \in 1..MaxSize, r \in BOOLEAN :
          DoPost(w, t, n, r, "absent") /\ Quiet
    \/ \E w \in Workers : Touch(w) /\ Quiet
    \/ \E w \in Workers, s \in Offsets, e \in Offsets :
          DoPut(w, SessionOf[w], s, e, TRUE, PairBody(w, SessionOf[w], s, e, TRUE))
            /\ Quiet
    \/ \E w \in Workers : Write(w) /\ Quiet
    \/ \E w \in Workers : SyncPart(w) /\ Quiet
    \/ \E w \in Workers : StoreOpen(w) /\ Quiet
    \/ \E w \in Workers : StoreDump(w) /\ Quiet
    \/ \E w \in Workers : StoreSync(w) /\ Quiet
    \/ \E w \in Workers : Fin(w) /\ Quiet
    \/ \E w \in Workers : Move(w) /\ Quiet
    \/ \E w \in Workers : DeleteState(w) /\ Quiet
    \/ \E w \in Workers : DoStatus(w, SessionOf[w]) /\ Quiet
    \/ \E w \in Workers : DoCancel(w, SessionOf[w]) /\ Quiet
    \/ \E w \in Workers : CancelPart(w) /\ Quiet
    \/ \E w \in Workers : SendResponse(w) /\ Quiet

SpecIso == InitIso /\ [][NextIso]_vars

---------------------------------------------------------------------------
(* A sender: HomeShareClient.upload, src/cli.py:99-124, against the server. *)

\* the payload bytes of the file the sender uploads
SourceBytes == {"a", "b"}

\* the files the sender may upload: 1..MaxFile bytes
Sources == SeqsUpTo(SourceBytes, MaxFile) \ {<<>>}

\* the sender is about to call start_upload for a file that is not in the
\* share, on a server with write access
InitE2E ==
    /\ PathIdle
    /\ StoreInit({"t1"}, 1)
    /\ ~cfg.read_only
    /\ \E f \in Sources : cli = [CliOff EXCEPT !.pc = "start", !.src = f, !.target = "t1"]
    /\ NoHistory
    /\ ReadIdle

\* start_upload, src/cli.py:88-97 and 102: POST /api/upload/session with the
\* file's size and resume=true (the default of upload)
CliStart(w) ==
    /\ cli.pc = "start"
    /\ \E ow \in {"true", "false"} : DoPost(w, cli.target, Len(cli.src), TRUE, ow)
    /\ cli' = [cli EXCEPT !.pc = "session"]

\* src/cli.py:103-106: the session's id and its offset; an error status is an
\* HTTPError, which ends upload
CliSession(w) ==
    /\ cli.pc = "session"
    /\ SendResponse(w)
    /\ cli' = IF req[w].out.code = 201
              THEN [cli EXCEPT !.pc = "loop", !.id = req[w].out.body.upload_id,
                               !.offset = req[w].out.body.received]
              ELSE [cli EXCEPT !.pc = "failed", !.last = req[w].out]

\* src/cli.py:107-121: while offset < file_size, PUT the next chunk, of
\* min(chunk_size, file_size - offset) bytes; chunk_size is any size >= 1 here,
\* chosen anew for every chunk
CliPut(w) ==
    /\ cli.pc = "loop"
    /\ cli.offset < Len(cli.src)
    /\ \E n \in 1..(Len(cli.src) - cli.offset) :
          DoPut(w, cli.id, cli.offset, cli.offset + n - 1, TRUE,
                SubSeq(cli.src, cli.offset + 1, cli.offset + n))
    /\ cli' = [cli EXCEPT !.pc = "put"]

\* src/cli.py:122-124: offset = data["received"]
CliPutResp(w) ==
    /\ cli.pc = "put"
    /\ SendResponse(w)
    /\ cli' = IF req[w].out.code = 200
              THEN [cli EXCEPT !.pc = "loop", !.offset = req[w].out.body.received,
                               !.last = req[w].out]
              ELSE [cli EXCEPT !.pc = "failed", !.last = req[w].out]

\* src/cli.py:107: the loop ends
CliDone ==
    /\ cli.pc = "loop"
    /\ cli.offset >= Len(cli.src)
    /\ cli' = [cli EXCEPT !.pc = "done"]
    /\ UNCHANGED storeVars

\* the sender's steps, the server's own steps on the sender's requests, and
\* somebody who asks for the status of the sender's session between two of
\* the sender's requests
NextE2E ==
    \/ \E w \in Workers : CliStart(w) /\ UNCHANGED <<pathVars, readVars>> /\ UNCHANGED histVars
    \/ \E w \in Workers : CliSession(w) /\ UNCHANGED <<pathVars, readVars>> /\ UNCHANGED histVars
    \/ \E w \in Workers : CliPut(w) /\ UNCHANGED <<pathVars, readVars>> /\ UNCHANGED histVars
    \/ \E w \in Workers : CliPutResp(w) /\ UNCHANGED <<pathVars, readVars>> /\ UNCHANGED histVars
    \/ CliDone /\ UNCHANGED <<pathVars, readVars>> /\ UNCHANGED histVars
    \/ \E w \in Workers : Touch(w) /\ Quiet
    \/ \E w \in Workers : Write(w) /\ Quiet
    \/ \E w \in Workers : SyncPart(w) /\ Quiet
    \/ \E w \in Workers : StoreOpen(w) /\ Quiet
    \/ \E w \in Workers : StoreDump(w) /\ Quiet
    \/ \E w \in Workers : StoreSync(w) /\ Quiet
    \/ \E w \in Workers : Fin(w) /\ Quiet
    \/ \E w \in Workers : Move(w) /\ Quiet
    \/ \E w \in Workers : DeleteState(w) /\ Quiet
    \/ \E w \in Workers : cli.pc \in {"loop", "done"} /\ DoStatus(w, cli.id) /\ Quiet
    \/ \E w \in Workers : cli.pc \in {"loop", "done"} /\ SendResponse(w) /\ Quiet

SpecE2E == InitE2E /\ [][NextE2E]_vars

\* _safe_join alone
SpecPath == InitPath /\ [][PathNext]_vars

---------------------------------------------------------------------------
(* Path confinement. *)

\* a path in canonical form: no ".." segment and no prefix that is a symlink
Canonical(path, lk) ==
    /\ \A i \in 1..Len(path) : path[i] # ".."
    /\ \A i \in 1..Len(path) : SubSeq(path, 1, i) \notin DOMAIN lk

\* C1: every call of _safe_join either raises the path-escape error or
\* returns a canonical path (no "..", no symlink left in it) that is the
\* share root or lies below it; it never returns a path outside the root.
C1_PathConfined ==
    \/ joined = PathEscape
    \/ /\ joined.kind = "ok"
       /\ IsPrefix(ShareRoot, joined.path)
       /\ Canonical(joined.path, links)

\* a path through a chain of symlinks that leaves the root was refused
C1_Witness ==
    /\ ShareRoot \o <<"ln">> \in DOMAIN links
    /\ links[ShareRoot \o <<"ln">>] = ShareRoot \o <<"a", "ln">>
    /\ rel = <<"", "ln", "a">>
    /\ joined = PathEscape

---------------------------------------------------------------------------
(* Steps of a chunk upload, as the properties below speak of them. *)

\* worker w takes a PUT /api/upload/<id> in this step
PutCall(w) ==
    /\ req[w].pc = "idle"
    /\ req'[w].pc # "idle"
    /\ req'[w].op = "put"

\* the PUT of this step got as far as append_chunk: do_PUT did not refuse it
\* for read-only mode or for its Content-Length
ReachedStore(w) ==
    ~(/\ req'[w].pc = "respond"
      /\ \/ req'[w].out.code = 403
         \/ req'[w].out.msg = LengthMismatch)

\* worker w is inside append_chunk, past its checks
InAppend(w) ==
    /\ req[w].op = "put"
    /\ req[w].pc \in DiskSteps \cup {"fin"}

\* worker w has the answer to a PUT / to a status request
PutDone(w) == req[w].pc = "respond" /\ req[w].op = "put"

StatusDone(w) == req[w].pc = "respond" /\ req[w].op = "status"

---------------------------------------------------------------------------
(* Sequential-only acceptance. *)

\* C2: an append_chunk call on a session with a readable record whose start
\* is not the session's received offset, below it or above it, fails with
\* "Unexpected chunk start", and the record and the staging file, in the
\* cache and on disk, are as they were.
C2_SequentialOnly ==
    [][\A w \in Workers :
          (/\ PutCall(w)
           /\ ReachedStore(w)
           /\ meta[req'[w].id].st = "ok"
           /\ meta[req'[w].id].received # req'[w].start)
          => /\ req'[w].pc = "respond"
             /\ req'[w].out = Error(400, SequenceMismatch)
             /\ UNCHANGED <<meta, metaDisk, part, partDisk>>]_vars

\* a chunk that starts below the offset of its session was refused
C2_Witness ==
    \E w \in Workers :
        /\ PutDone(w)
        /\ req[w].out = Error(400, SequenceMismatch)
        /\ meta[req[w].id].st = "ok"
        /\ req[w].start < meta[req[w].id].received

---------------------------------------------------------------------------
(* Restart between two operations. *)

\* a step between two operations in which no request is taken and the share
\* is left alone: a restart
RestartStep ==
    /\ \A w \in Workers : req[w].pc = "idle"
    /\ UNCHANGED <<req, share>>

\* the chunk [start, endx) continues the session m and fits its size
Continues(m, start, endx) ==
    /\ m.st = "ok"
    /\ start = m.received
    /\ endx > start
    /\ endx <= m.total_size

\* the chunk was recorded but the finished file could not be put in place
RecordedNotMoved(w) ==
    /\ req'[w].out = Error(400, TargetExists)
    /\ meta'[req[w].id].st = "ok"
    /\ meta'[req[w].id].received = req[w].endx
    /\ meta'[req[w].id].received = meta'[req[w].id].total_size
    /\ ~meta'[req[w].id].overwrite
    /\ share[meta'[req[w].id].target_path].ex

\* C3: a restart between two operations leaves every session record and
\* staging file as the operations before it left them; status on a session
\* with a readable record answers with that record's offset, target path and
\* size; an append_chunk that starts at the recorded offset with a valid end
\* is accepted, and it ends in success, or, when it completes a session whose
\* target exists and may not be overwritten, in "Target file exists" with
\* the chunk recorded.
C3_CrashResume ==
    /\ [][RestartStep => UNCHANGED <<meta, part>>]_vars
    /\ [](\A w \in Workers :
            (StatusDone(w) /\ meta[req[w].id].st = "ok")
            => req[w].out = Resp(200, "", PublicState(meta[req[w].id])))
    /\ [][\A w \in Workers :
            (/\ PutCall(w)
             /\ ReachedStore(w)
             /\ Continues(meta[req'[w].id], req'[w].start, req'[w].endx))
            => req'[w].pc = "write"]_vars
    /\ [][\A w \in Workers :
            (InAppend(w) /\ req'[w].pc = "respond")
            => \/ req'[w].out.code = 200
               \/ RecordedNotMoved(w)]_vars

\* a session that a restart found at offset 1 took the chunk that starts at 1
C3_Witness ==
    \E w \in Workers :
        /\ PutDone(w)
        /\ req[w].out.code = 200
        /\ boot[req[w].id].st = "ok"
        /\ boot[req[w].id].received = 1
        /\ req[w].start = 1

\* C3 as first stated: after a restart that found the session at offset k,
\* every append_chunk that starts at k with a valid end succeeds.
C3_Original ==
    [][\A w \in Workers :
          (/\ InAppend(w)
           /\ req'[w].pc = "respond"
           /\ boot[req[w].id].st = "ok"
           /\ boot[req[w].id].received = req[w].start)
          => req'[w].out.code = 200]_vars

---------------------------------------------------------------------------
(* Durability before acknowledgement. *)

\* C4: a chunk is answered with success only after these four steps, in this
\* order: the write to the staging file, its fsync, the dump of the record
\* with the new offset, its fsync; and while the session is not finalized,
\* the record on disk holds the new offset and the staging file on disk is
\* the staging file written.
C4_DurableBeforeAck ==
    \A w \in Workers :
        (PutDone(w) /\ req[w].out.code = 200)
        => /\ req[w].io = <<"write", "fsync_part", "dump", "fsync_meta">>
           /\ meta[req[w].id].st = "ok"
              => /\ metaDisk[req[w].id] = meta[req[w].id]
                 /\ metaDisk[req[w].id].received = req[w].endx
                 /\ partDisk[req[w].id] = part[req[w].id]

\* a chunk that does not complete its session was answered with success
C4_Witness ==
    \E w \in Workers :
        /\ PutDone(w)
        /\ req[w].out.code = 200
        /\ metaDisk[req[w].id].st = "ok"
        /\ metaDisk[req[w].id].received = req[w].endx
        /\ metaDisk[req[w].id].received < metaDisk[req[w].id].total_size

---------------------------------------------------------------------------
(* Interrupted chunk write. *)

\* C5: when the process stops inside an append_chunk on a session whose
\* record is on disk, the restart finds the record readable, with the offset
\* the chunk started at or the offset it ends at.
C5_InterruptedChunk ==
    [][\A w \in Workers :
          (/\ InAppend(w)
           /\ req'[w].pc = "idle"
           /\ metaDisk[req[w].id].st = "ok")
          => /\ meta'[req[w].id].st = "ok"
             /\ meta'[req[w].id].received \in {req[w].start, req[w].endx}]_vars

---------------------------------------------------------------------------
(* Offset bounds. *)

\* C6: every session record has a size of at least 0 and an offset from 0
\* to its size.
C6_OffsetBounds ==
    \A i \in IDs :
        meta[i].st = "ok"
        => /\ meta[i].total_size >= 0
           /\ 0 <= meta[i].received
           /\ meta[i].received <= meta[i].total_size

---------------------------------------------------------------------------
(* Resume idempotence. *)

\* C7: a create with resume=true for the target and size of the session the
\* last such create returned, that session neither finalized nor cancelled
\* since, returns the same session, with its current offset.
C7_ResumeIdempotent ==
    [][\A w \in Workers :
          (/\ ResumeReply(w)
           /\ lastResume.id # 0
           /\ req'[w].out.body.target_path = lastResume.target
           /\ req'[w].out.body.total_size = lastResume.size)
          => /\ req'[w].out.body.upload_id = lastResume.id
             /\ req'[w].out.body.received = meta[lastResume.id].received]_vars

---------------------------------------------------------------------------
(* Finalize without overwrite. *)

\* C8: an append_chunk that completes a session whose target exists and
\* which may not overwrite fails with "Target file exists" and leaves the
\* share as it is; and _finalize puts the staging file in the place of an
\* existing target only for a session that may overwrite.
C8_NoOverwrite ==
    /\ [][\A w \in Workers :
            (/\ req[w].pc = "fin"
             /\ req'[w].pc \in {"respond", "move"}
             /\ FinalizeDue(req[w].m)
             /\ share[req[w].m.target_path].ex
             /\ ~req[w].m.overwrite)
            => /\ req'[w].out = Error(400, TargetExists)
               /\ UNCHANGED share]_vars
    /\ [][\A w \in Workers :
            (/\ req[w].pc = "move"
             /\ req'[w].pc = "delete"
             /\ share[req[w].m.target_path].ex)
            => req[w].m.overwrite]_vars

---------------------------------------------------------------------------
(* End-to-end upload. *)

\* C9: the sender's upload never fails; when its loop has ended, the answer
\* to the last chunk was a success that reports the session complete at the
\* source's length, the target file is the source, byte for byte, and the
\* session is finalized: a status request for it is answered with "Upload
\* session not found".
C9_EndToEnd ==
    /\ cli.pc # "failed"
    /\ cli.pc = "done"
       => /\ cli.last.code = 200
          /\ cli.last.body.completed
          /\ cli.last.body.received = Len(cli.src)
          /\ share[cli.target] = File(cli.src)
          /\ cli.id \in gone
          /\ meta[cli.id].st = "none"
          /\ \A w \in Workers :
                (StatusDone(w) /\ req[w].id = cli.id)
                => req[w].out = Error(404, SessionNotFound)

\* a file of MaxFile bytes, not all the same, is in place and the status of
\* its session was asked for
C9_Witness ==
    /\ cli.pc = "done"
    /\ Len(cli.src) = MaxFile
    /\ cli.src[1] # cli.src[MaxFile]
    /\ share[cli.target] = File(cli.src)
    /\ \E w \in Workers : StatusDone(w) /\ req[w].id = cli.id

\* C9 as first stated: after the last chunk, status reports the session
\* complete.
C9_Original ==
    \A w \in Workers :
        (cli.pc = "done" /\ StatusDone(w) /\ req[w].id = cli.id)
        => /\ req[w].out.code = 200
           /\ req[w].out.body.completed

---------------------------------------------------------------------------
(* Finalization is terminal. *)

\* C10: _finalize moves the staging file, as it is, to the target path; a
\* finalized session has no record and no staging file, in the cache or on
\* disk, ever after; and every later status request or append_chunk for it is
\* answered with "Upload session not found".
C10_FinalTerminal ==
    /\ [][\A w \in Workers :
            (req[w].pc = "move" /\ req'[w].pc = "delete")
            => /\ part[req[w].id].ex
               /\ share'[req[w].m.target_path] = part[req[w].id]]_vars
    /\ [](\A i \in gone :
            /\ meta[i].st = "none"
            /\ metaDisk[i].st = "none"
            /\ ~part[i].ex
            /\ ~partDisk[i].ex)
    /\ [](\A w \in Workers :
            (/\ StatusDone(w) \/ PutDone(w)
             /\ req[w].id \in gone
             /\ req[w].io = <<>>
             /\ req[w].out.code # 403
             /\ req[w].out.msg # LengthMismatch)
            => req[w].out = Error(404, SessionNotFound))

\* a chunk for a finalized session was refused
C10_Witness ==
    \E w \in Workers :
        /\ PutDone(w)
        /\ req[w].id \in gone
        /\ req[w].io = <<>>
        /\ req[w].out = Error(404, SessionNotFound)

---------------------------------------------------------------------------
(* Cancel. *)

\* worker w takes a DELETE /api/upload/<id> in this step
CancelCall(w) ==
    /\ req[w].pc = "idle"
    /\ req'[w].op = "cancel"

\* the cancel of worker w returns in this step
CancelReturn(w) ==
    /\ req[w].pc = "cancel_part"
    /\ req'[w].pc = "respond"
    /\ req'[w].out.code # 0

\* C11: a cancel that returns answers 200 and leaves neither record nor
\* staging file of its id; a cancel of an id with no record and no staging
\* file changes no file, so a second cancel changes nothing; the sessions a
\* cancel returned for have no record and no staging file ever after, in the
\* cache or on disk, and a status request for one is answered with "Upload
\* session not found".
C11_Cancel ==
    /\ [][\A w \in Workers :
            (CancelCall(w) /\ meta[req'[w].id].st = "none")
            => UNCHANGED <<meta, metaDisk, part, partDisk, share>>]_vars
    /\ [][\A w \in Workers :
            CancelReturn(w)
            => /\ req'[w].out = Resp(200, "", NoBody)
               /\ meta'[req[w].id].st = "none"
               /\ metaDisk'[req[w].id].st = "none"
               /\ ~part'[req[w].id].ex
               /\ ~partDisk'[req[w].id].ex
               /\ ~part[req[w].id].ex => UNCHANGED <<part, partDisk>>
               /\ UNCHANGED <<meta, metaDisk, share>>]_vars
    /\ [](\A i \in cancelled :
            /\ meta[i].st = "none"
            /\ metaDisk[i].st = "none"
            /\ ~part[i].ex
            /\ ~partDisk[i].ex)
    /\ [](\A w \in Workers :
            (StatusDone(w) /\ req[w].id \in cancelled)
            => req[w].out = Error(404, SessionNotFound))

\* the status of a session that was created and then cancelled was asked for
C11_Witness ==
    \E w \in Workers :
        /\ StatusDone(w)
        /\ req[w].id \in cancelled
        /\ req[w].out = Error(404, SessionNotFound)

---------------------------------------------------------------------------
(* Read-only gating. *)

\* the requests for the upload store that change it
MutatingOps == {"create", "put", "cancel"}

\* C12: on a read-only server every upload-session creation, chunk upload
\* and upload cancellation is answered with 403 "Server running in read-only
\* mode", and no step of a request changes a session record, a staging file
\* or a file of the share.
C12_ReadOnlyGating ==
    /\ [](\A w \in Workers :
            (/\ cfg.read_only
             /\ req[w].pc = "respond"
             /\ req[w].op \in MutatingOps)
            => req[w].out = Error(403, ReadOnlyMode))
    /\ [][(/\ cfg.read_only
           /\ cfg'.read_only
           /\ \E w \in Workers : req'[w] # req[w])
          => UNCHANGED <<meta, metaDisk, part, partDisk, share>>]_vars

---------------------------------------------------------------------------
(* Atomic offset check under concurrency. *)

\* the PUT worker w has the answer to was let into append_chunk and wrote
\* its chunk
Accepted(w) == PutDone(w) /\ req[w].io # <<>>

\* the chunk upload of worker w has been written and its answer is not yet
\* sent when, in this step, worker v gets the lock for a chunk upload for the
\* same session with the same start, a range that fits the session and the
\* Content-Length that goes with it; neither chunk is empty
SameStart(w, v) ==
    /\ w # v
    /\ Accepted(w)
    /\ req[w].endx > req[w].start
    /\ PutCall(v)
    /\ ReachedStore(v)
    /\ req'[v].id = req[w].id
    /\ req'[v].start = req[w].start
    /\ req'[v].endx > req'[v].start
    /\ req'[v].endx <= (IF meta[req[w].id].st = "ok"
                        THEN meta[req[w].id].total_size
                        ELSE req[w].endx)

\* C13: no two workers are inside append_chunk at once; a chunk that was let
\* in is answered with success, or with "Target file exists" when it
\* completes a session that cannot be moved into place, and leaves the
\* record, while there is one, at the chunk's end and the chunk's bytes in the
\* staging file; a second chunk upload with the same start is not written: it
\* is answered with "Unexpected chunk start", or with "Upload session not
\* found" when the session has been finalized, and changes no file.
C13_AtomicOffsetCheck ==
    /\ [](\A w, v \in Workers : w # v => ~(InAppend(w) /\ InAppend(v)))
    /\ [][\A w \in Workers :
            (InAppend(w) /\ req'[w].pc = "respond")
            => /\ \/ req'[w].out.code = 200
                  \/ RecordedNotMoved(w)
               /\ meta'[req[w].id].st = "ok"
                  => /\ meta'[req[w].id].received = req[w].endx
                     /\ part'[req[w].id].ex
                     /\ \A k \in (req[w].start + 1)..req[w].endx :
                           part'[req[w].id].data[k] = PairByte[w]]_vars
    /\ [][\A w, v \in Workers :
            SameStart(w, v)
            => /\ req'[v].pc = "respond"
               /\ \/ req'[v].out = Error(400, SequenceMismatch)
                  \/ /\ req'[v].out = Error(404, SessionNotFound)
                     /\ meta[req[w].id].st = "none"
               /\ UNCHANGED <<meta, metaDisk, part, partDisk, share>>]_vars

\* two connections sent the first byte of a two-byte session: one chunk is
\* recorded, the other was refused for its start
C13_Witness ==
    \E w, v \in Workers :
        /\ w # v
        /\ Accepted(w)
        /\ req[w].out.code = 200
        /\ PutDone(v)
        /\ req[v].id = req[w].id
        /\ req[v].start = req[w].start
        /\ req[v].endx = req[w].endx
        /\ req[v].out = Error(400, SequenceMismatch)
        /\ meta[req[w].id].st = "ok"
        /\ part[req[w].id].data = <<PairByte[w]>>

\* C13 as first stated: of the two, one succeeds and the other fails with
\* "Unexpected chunk start".
C13_Original ==
    [][\A w, v \in Workers :
          SameStart(w, v)
          => /\ req[w].out.code = 200
             /\ req'[v].out = Error(400, SequenceMismatch)]_vars

---------------------------------------------------------------------------
(* The runs of GET /files/<path>: one request after the other, each for any *)
(* file and any Range header.                                               *)

\* do_GET, src/server.py:352-355
Download ==
    \E f \in Served, h \in RangeHeaders :
        dl' = [file |-> f, hdr |-> h, resp |-> SendFile(f, h)]

NextRange == Download /\ UNCHANGED <<pathVars, storeVars, clientVars, arc, lst, ans>>

SpecRange == Init /\ [][NextRange]_vars

\* the size of the file of the last download
DlSize == Len(dl.file.data)

\* the last download carried bytes=<s>- or bytes=<s>-<e> with that start
StartsAt(n) == dl.file.ex /\ dl.hdr.kind = "bytes" /\ dl.hdr.s = n

\* C14 (Range boundaries): for a file of N >= 1 bytes, a range that starts at
\* N-1 and names no end is answered 206 with exactly the last byte and
\* Content-Range "bytes (N-1)-(N-1)/N"; a range with any start >= N is
\* answered 416 with Content-Range "bytes */N" and no body.
C14_RangeBoundaries ==
    /\ (DlSize >= 1 /\ StartsAt(DlSize - 1) /\ dl.hdr.e = Empty)
            => /\ dl.resp.status = 206
               /\ dl.resp.body = <<dl.file.data[DlSize]>>
               /\ dl.resp.hasLength /\ dl.resp.length = 1
               /\ dl.resp.crange = ContentRange(DlSize - 1, DlSize - 1, DlSize)
    /\ (DlSize >= 1 /\ \E n \in RangeNums : n >= DlSize /\ StartsAt(n))
            => /\ dl.resp.status = 416
               /\ dl.resp.crange = ContentRangeStar(DlSize)
               /\ dl.resp.body = <<>>

\* a range that starts at N, with no end, was asked of a file of N = MaxFile
\* bytes and answered 416
C14_Witness ==
    /\ DlSize = MaxFile /\ StartsAt(MaxFile) /\ dl.hdr.e = Empty
    /\ dl.resp.status = 416

\* the end a range request asks for, clamped to the last byte of the file
ClampedEnd ==
    IF dl.hdr.e = Empty \/ dl.hdr.e >= DlSize THEN DlSize - 1 ELSE dl.hdr.e

\* C15 (Served range is well-formed): every answer 206 to a range request
\* "start-end" (either bound possibly omitted) on a file of N bytes reports a
\* range with 0 <= start <= end <= N-1, where end is the requested end
\* clamped to N-1, declares Content-Length = end - start + 1 >= 1, and
\* carries exactly the bytes start..end of the file.
C15_ServedRangeWellFormed ==
    dl.resp.status = 206
        => /\ dl.resp.crange.kind = "range"
           /\ dl.resp.crange.size = DlSize
           /\ dl.resp.crange.end = ClampedEnd
           /\ 0 <= dl.resp.crange.start
           /\ dl.resp.crange.start <= dl.resp.crange.end
           /\ dl.resp.crange.end <= DlSize - 1
           /\ dl.resp.hasLength
           /\ dl.resp.length = dl.resp.crange.end - dl.resp.crange.start + 1
           /\ dl.resp.length >= 1
           /\ dl.resp.body = SubSeq(dl.file.data, dl.resp.crange.start + 1,
                                    dl.resp.crange.end + 1)

---------------------------------------------------------------------------
(* The failure kinds of the upload endpoints and what the client is told.  *)

\* the failure kind an error answer stands for: the exception that
\* append_chunk, _finalize, _load_state or do_PUT raised or reported,
\* src/server.py:96, 160-164, 181, 327, 503
FailureKind(out) ==
    CASE out.msg = SequenceMismatch -> "SequenceMismatch"
      [] out.msg \in {RangeEndInvalid, RangeExceeds} -> "RangeInvalid"
      [] out.msg = TargetExists -> "TargetExists"
      [] out.msg = SessionNotFound -> "SessionNotFound"
      [] out.msg = ReadOnlyMode -> "Forbidden"
      [] out.msg = LengthMismatch -> "BadRequest"
      [] OTHER -> "none"

\* the status of the answer, the first argument of send_error,
\* src/server.py:506-517
Signal(out) == out.code

\* worker w is about to send the answer of a failed request
Failed(w) == req[w].pc = "respond" /\ FailureKind(req[w].out) # "none"

\* C16 (Distinct failure signals): two requests that fail with different
\* failure kinds are answered with different status signals; in particular
\* SequenceMismatch, RangeInvalid and TargetExists on a chunk upload differ
\* from each other and from BadRequest.
C16_DistinctFailureSignals ==
    \A w, v \in Workers :
        (Failed(w) /\ Failed(v)
            /\ FailureKind(req[w].out) # FailureKind(req[v].out))
            => Signal(req[w].out) # Signal(req[v].out)

---------------------------------------------------------------------------
(* The runs of POST /api/zip: one request after the other, each on any     *)
(* share content and for any list of paths.                                *)

\* do_POST, src/server.py:467-475: the body is read; a list that is empty is
\* answered 400
ZipStart ==
    /\ arc.pc = "idle"
    /\ \E t \in Trees, o \in DirOrders, ps \in ZipLists :
        arc' = IF ps = <<>>
               THEN [NoArchive EXCEPT !.pc = "done", !.tree = t, !.ord = o,
                                      !.wire = ZipError(400)]
               ELSE [NoArchive EXCEPT !.pc = "add", !.tree = t, !.ord = o,
                                      !.paths = ps]

\* _send_zip, src/server.py:535-557 with do_POST, 476-482: the next listed
\* path is added to the spool, or its exception ends the request
ZipAdd ==
    /\ arc.pc = "add"
    /\ arc.pos <= Len(arc.paths)
    /\ LET m == ZipMembers(arc.tree, arc.paths[arc.pos], arc.ord) IN
       arc' = CASE m.raise = "FileNotFoundError" ->
                     [arc EXCEPT !.pc = "done", !.wire = ZipError(404)]
                [] m.raise = "PermissionError" ->
                     [arc EXCEPT !.pc = "done", !.wire = ZipError(403)]
                [] OTHER -> Spooled(arc, m.add)

\* _send_zip, src/server.py:558-566: the spool is read back and sent with
\* its length
ZipSend ==
    /\ arc.pc = "add"
    /\ arc.pos > Len(arc.paths)
    /\ arc' = [arc EXCEPT !.pc = "done", !.wire = ZipOk(arc.spool)]

\* do_POST returns, src/server.py:482, and the connection takes the next
\* request
ZipReturn ==
    /\ arc.pc = "done"
    /\ arc' = NoArchive

NextZip ==
    \/ ZipStart /\ UNCHANGED <<pathVars, storeVars, clientVars, dl, lst, ans>>
    \/ ZipAdd /\ UNCHANGED <<pathVars, storeVars, clientVars, dl, lst, ans>>
    \/ ZipSend /\ UNCHANGED <<pathVars, storeVars, clientVars, dl, lst, ans>>
    \/ ZipReturn /\ UNCHANGED <<pathVars, storeVars, clientVars, dl, lst, ans>>

SpecZip == Init /\ [][NextZip]_vars

\* the listed path at position i is, on the request's share, neither a file
\* nor a directory
Missing(i) ==
    ZipMembers(arc.tree, arc.paths[i], arc.ord).raise = "FileNotFoundError"

\* the listed path at position i leaves the share root
Escapes(i) ==
    ZipMembers(arc.tree, arc.paths[i], arc.ord).raise = "PermissionError"

\* the members of the archive of the whole list
RECURSIVE Assembled(_)
Assembled(i) ==
    IF i = 0 THEN <<>>
    ELSE Assembled(i - 1) \o ZipMembers(arc.tree, arc.paths[i], arc.ord).add

\* C17 (Archive all-or-nothing): nothing is sent while the archive is
\* assembled; a request that lists a path which is neither a file nor a
\* directory, at whatever position, ends with the 404 of PathNotFound alone
\* on the connection, unless a path listed before it leaves the share root,
\* which ends the request with 403 alone; archive bytes are sent only as
\* the whole assembled archive, after a 200 that declares their length.
C17_ArchiveAllOrNothing ==
    /\ arc.pc = "add" => arc.wire = <<>>
    /\ (arc.pc = "done" /\ \E i \in 1..Len(arc.paths) : Missing(i))
            => \/ arc.wire = ZipError(404)
               \/ /\ arc.wire = ZipError(403)
                  /\ \E i, k \in 1..Len(arc.paths) : k < i /\ Missing(i) /\ Escapes(k)
    /\ (\E k \in 1..Len(arc.wire) : "bytes" \in DOMAIN arc.wire[k])
            => /\ arc.pc = "done"
               /\ arc.wire = ZipOk(Assembled(Len(arc.paths)))
               /\ \A i \in 1..Len(arc.paths) : ~Missing(i) /\ ~Escapes(i)

\* a request that lists a directory with content and then a missing path
\* was answered
C17_Witness ==
    /\ arc.pc = "done"
    /\ Len(arc.paths) = 2
    /\ ~Missing(1) /\ ~Escapes(1)
    /\ Len(ZipMembers(arc.tree, arc.paths[1], arc.ord).add) > 1
    /\ Missing(2)
    /\ arc.wire = ZipError(404)

\* C17 as stated: a request that lists a missing path always ends with
\* PathNotFound
C17_Original ==
    (arc.pc = "done" /\ \E i \in 1..Len(arc.paths) : Missing(i))
        => arc.wire = ZipError(404)

\* the archive a request was answered with, when it was answered 200
Archive == arc.wire[2].bytes

Archived == arc.pc = "done" /\ Len(arc.wire) = 2

\* the node the listed path at position i names
Requested(i) == PathParts(arc.paths[i])

\* what exists beneath the directory r
Beneath(r) ==
    {n \in ZipNodes : Len(n) > Len(r) /\ SubSeq(n, 1, Len(r)) = r
                        /\ arc.tree[n] # "none"}

\* the number of members the listed path at position i accounts for
BlockSize(i) ==
    IF KindAt(arc.tree, Requested(i)) = "dir"
    THEN 1 + Cardinality(Beneath(Requested(i)))
    ELSE 1

\* the number of members the paths listed before position i account for
RECURSIVE BlockStart(_)
BlockStart(i) == IF i = 1 THEN 0 ELSE BlockStart(i - 1) + BlockSize(i - 1)

\* the members of the archive that belong to position i
Block(i) == SubSeq(Archive, BlockStart(i) + 1, BlockStart(i) + BlockSize(i))

\* C18 (Archive completeness): an archive that is sent holds, for each
\* listed path in the order of the list, its members and nothing else: for
\* a directory first the entry of the directory itself, then exactly one
\* file member for every file anywhere beneath it and exactly one directory
\* entry for every subdirectory at any depth (empty ones included), each
\* named by the request path followed by its path relative to it; for a
\* file exactly one member.
C18_ArchiveCompleteness ==
    Archived =>
        /\ Len(Archive) = BlockStart(Len(arc.paths)) + BlockSize(Len(arc.paths))
        /\ \A i \in 1..Len(arc.paths) :
            IF KindAt(arc.tree, Requested(i)) = "dir"
            THEN /\ Block(i)[1] = ZipEntry(DirArcname(arc.paths[i]), TRUE)
                 /\ \A n \in Beneath(Requested(i)) :
                        Cardinality({k \in 2..BlockSize(i) :
                            Block(i)[k] = ZipEntry(n, arc.tree[n] = "dir")}) = 1
            ELSE Block(i) = <<ZipEntry(Requested(i), FALSE)>>

\* an archive was sent for a file followed by a directory that holds a
\* file and, two levels down, an empty directory
C18_Witness ==
    /\ Archived
    /\ arc.paths = << <<"b">>, <<"a">> >>
    /\ arc.tree[<<"b">>] = "file"
    /\ arc.tree[<<"a", "b">>] = "file"
    /\ arc.tree[<<"a", "a", "a">>] = "dir"
    /\ ZipEntry(<<"a", "a", "a">>, TRUE) \in {Archive[k] : k \in 1..Len(Archive)}

---------------------------------------------------------------------------
(* The runs of GET /api/list: one request after the other, each on any     *)
(* directory.                                                              *)

\* do_GET, src/server.py:356-366
List ==
    /\ lst = NoListing
    /\ \E d \in Directories : lst' = [dir |-> d, resp |-> ListDirectory(d)]

\* do_GET returns, src/server.py:366, and the connection takes the next
\* request
ListReturn ==
    /\ lst # NoListing
    /\ lst' = NoListing

NextList ==
    \/ List /\ UNCHANGED <<pathVars, storeVars, clientVars, dl, arc, ans>>
    \/ ListReturn /\ UNCHANGED <<pathVars, storeVars, clientVars, dl, arc, ans>>

SpecList == Init /\ [][NextList]_vars

\* the names of the listed directory that do not start with "."
Visible == {lst.dir[k].name : k \in {i \in 1..Len(lst.dir) : ~Dotted(lst.dir[i].name)}}

\* C19 (Directory listing order): the listing of a directory holds exactly
\* its entries whose name does not start with ".", each once, all
\* directories before all files, each group in case-insensitive name order.
C19_ListingOrder ==
    LET out == lst.resp.entries IN
    /\ lst.resp.code \in {0, 200}
    /\ {out[k].name : k \in 1..Len(out)} = Visible
    /\ Len(out) = Cardinality(Visible)
    /\ \A i, k \in 1..Len(out) :
        i < k => /\ ~(out[i].type = "file" /\ out[k].type = "dir")
                 /\ out[i].type = out[k].type => Rank(out[i].name) <= Rank(out[k].name)

---------------------------------------------------------------------------
(* Finalization. *)

\* a session whose record says that every byte arrived
Complete(m) == m.received = m.total_size /\ m.total_size > 0

\* in this step append_chunk, having stored the record, goes on to
\* _finalize (which moves the staging file or raises FileExistsError)
Triggered(w) ==
    /\ Fin(w)
    /\ ~(req'[w].pc = "respond" /\ req'[w].out.code = 200)

\* C20 (Finalize exactly when complete): append_chunk goes on to _finalize
\* if and only if the record it has just stored has received = total_size
\* and total_size > 0; the staging file is moved and the record deleted only
\* for such a session; a session of size 0 (or less) never has a chunk
\* accepted; while a chunk that ends before total_size is handled the
\* request changes no file of the share; and the answer's "completed" says
\* whether the session was complete.
C20_FinalizeWhenComplete ==
    /\ [][\A w \in Workers : Fin(w) => (Triggered(w) <=> Complete(req[w].m))]_vars
    /\ [][\A w \in Workers : (Move(w) \/ DeleteState(w)) => Complete(req[w].m)]_vars
    /\ [][\A w \in Workers :
            (InAppend(w) /\ req'[w] # req[w] /\ req[w].endx < req[w].m.total_size)
                => UNCHANGED share]_vars
    /\ [](\A i \in IDs :
            (meta[i].st = "ok" /\ meta[i].total_size <= 0) => meta[i].received = 0)
    /\ [](\A w \in Workers :
            (PutDone(w) /\ req[w].out.code = 200)
                => (req[w].out.body.completed <=> Complete(req[w].out.body)))

\* the second chunk of a session of MaxSize bytes was recorded and
\* append_chunk is about to move the staging file
C20_Witness ==
    \E w \in Workers :
        /\ req[w].op = "put" /\ req[w].pc = "move"
        /\ req[w].start = MaxSize - 1 /\ req[w].endx = MaxSize
        /\ req[w].m.total_size = MaxSize
        /\ meta[req[w].id].received = MaxSize

---------------------------------------------------------------------------
(* Staging bytes and the recorded offset. *)

\* no request is being handled: every worker waits for a request and the
\* lock is free
AtRest == lock = "free" /\ \A w \in Workers : req[w].pc = "idle"

\* C21 (Staging bytes match the offset): whenever no operation is in
\* progress, the staging file of every session with a record exists and
\* holds exactly "received" bytes, none of them a gap.
C21_StagingMatchesOffset ==
    AtRest =>
        \A i \in IDs :
            meta[i].st = "ok"
                => /\ part[i].ex
                   /\ Len(part[i].data) = meta[i].received
                   /\ \A k \in 1..Len(part[i].data) : part[i].data[k] # Hole

---------------------------------------------------------------------------
(* Range errors. *)

\* the range of the PUT taken in this step is out of bounds for the session
\* it names
RangeOut(w) ==
    \/ req'[w].endx < req'[w].start
    \/ req'[w].endx > meta[req'[w].id].total_size

\* C22 (RangeInvalid leaves state unchanged): an append_chunk call on a
\* session with a readable record, whose start is the session's received
\* offset and whose end is below the start or above total_size, fails with
\* "Invalid range end" or "Chunk exceeds declared file size" respectively,
\* and the record and the staging file, in the cache and on disk, are as
\* they were; when the start is wrong as well the failure is "Unexpected
\* chunk start".
C22_RangeInvalidNoEffect ==
    [][\A w \in Workers :
          (/\ PutCall(w)
           /\ ReachedStore(w)
           /\ meta[req'[w].id].st = "ok"
           /\ RangeOut(w))
          => /\ req'[w].pc = "respond"
             /\ req'[w].out =
                  Error(400,
                        IF meta[req'[w].id].received # req'[w].start
                        THEN SequenceMismatch
                        ELSE IF req'[w].endx < req'[w].start
                        THEN RangeEndInvalid
                        ELSE RangeExceeds)
             /\ UNCHANGED <<meta, metaDisk, part, partDisk, share>>]_vars

\* a chunk that starts at the offset of its session and ends past its size
\* was refused
C22_Witness ==
    \E w \in Workers :
        /\ PutDone(w)
        /\ req[w].out = Error(400, RangeExceeds)
        /\ meta[req[w].id].st = "ok"
        /\ req[w].start = meta[req[w].id].received
        /\ req[w].endx > meta[req[w].id].total_size

---------------------------------------------------------------------------
(* The runs of the endpoints that take a client path: one request after    *)
(* the other, each on any filesystem and with any path.                    *)

\* do_GET and do_POST, src/server.py:343-482: a write endpoint of a
\* read-only server answers 403 before the path is looked at; else the path
\* goes through _safe_join
PathRequest ==
    /\ ans = NoRequest
    /\ \E ep \in Endpoints, lk \in LinkTables, p \in RelPaths :
        IF cfg.read_only /\ ep \in WriteEndpoints
        THEN /\ ans' = [ep |-> ep, code |-> 403]
             /\ UNCHANGED pathVars
        ELSE /\ links' = lk
             /\ rel' = p
             /\ joined' = SafeJoin(ShareRoot, p, lk)
             /\ ans' = [ep |-> ep, code |-> PathAnswer(ep, SafeJoin(ShareRoot, p, lk))]

\* the handler returns and the connection takes the next request
PathReturn ==
    /\ ans # NoRequest
    /\ ans' = NoRequest
    /\ links' = <<>>
    /\ rel' = <<"">>
    /\ joined' = SafeJoin(ShareRoot, <<"">>, <<>>)

NextEscape ==
    \/ PathRequest /\ UNCHANGED <<storeVars, clientVars, dl, arc, lst>>
    \/ PathReturn /\ UNCHANGED <<storeVars, clientVars, dl, arc, lst>>

SpecEscape == Init /\ [][NextEscape]_vars

\* C23 (PathEscape is reported as access denial on every endpoint): a
\* request of any kind that takes a client path, with a path that escapes
\* the share root, is answered 403; it never ends without a response.
C23_EscapeDenied ==
    (ans # NoRequest /\ joined = PathEscape) => ans.code = 403

---------------------------------------------------------------------------
(* Session isolation. *)

\* the session the step of worker w works on: the one its request names,
\* or the one a create makes
OnSession(w) == IF req[w].pc = "idle" THEN req'[w].id ELSE req[w].id

\* C24 (Session isolation): no step of a create, append_chunk, status or
\* cancel, whether the operation succeeds or fails, changes the record or
\* the staging file (in the cache or on disk) of a session other than the
\* one it works on, with two connections working on distinct sessions in
\* any interleaving.
C24_SessionIsolation ==
    [][\A w \in Workers, b \in IDs :
          (req'[w] # req[w] /\ b # OnSession(w))
          => /\ meta'[b] = meta[b]
             /\ metaDisk'[b] = metaDisk[b]
             /\ part'[b] = part[b]
             /\ partDisk'[b] = partDisk[b]]_vars

\* both sessions exist, session 2 has a byte, and a chunk of session 1 was
\* accepted while the other connection had a request of its own in hand
C24_Witness ==
    /\ meta[1].st = "ok" /\ meta[2].st = "ok"
    /\ meta[2].received = 1 /\ part[2].data = <<"b">>
    /\ PutDone("w1") /\ req["w1"].id = 1 /\ req["w1"].out.code = 200
    /\ req["w2"].pc = "respond"


---------------------------------------------------------------------------
(* Monotonic progress. *)

\* the offset of session i in a record file, on either layer
Recorded(f, i) == f[i].received

\* worker w is in an append_chunk whose checks passed and whose new record,
\* with the chunk's end as offset, is written and about to be flushed
Recording(w, i) ==
    /\ req[w].op = "put"
    /\ req[w].id = i
    /\ req[w].pc = "store_sync"

\* the statement without its last clause amended: a PUT that is answered
\* "Target file exists" has failed, so the offset of its session would be
\* the start of the chunk, where the checks of the call found it
C25_FailedAppendKeepsOffset ==
    \A w \in Workers :
        (/\ PutDone(w)
         /\ req[w].out = Error(400, TargetExists)
         /\ metaDisk[req[w].id].st = "ok")
        => Recorded(metaDisk, req[w].id) = req[w].start

\* the process stops, in an operation or between two
Stops == \A w \in Workers : req'[w] = IdleReq

\* C25: in every step, failed operations, crashes and restarts included, the
\* offset in the record a session has on disk does not decrease while the
\* record stays readable, and it changes only to the offset of the record
\* that was written over it: when an append_chunk call whose checks passed
\* flushes its record, which holds the exclusive end of the call's chunk, or
\* when the process stops and a record that was written and not flushed
\* reaches the disk. The call itself may still fail, in the
\* flush or in finalization with "Target file exists".
C25_MonotonicProgress ==
    [][\A i \in IDs :
          (metaDisk[i].st = "ok" /\ metaDisk'[i].st = "ok")
          => /\ Recorded(metaDisk', i) >= Recorded(metaDisk, i)
             /\ Recorded(metaDisk', i) # Recorded(metaDisk, i)
                => /\ meta[i].st = "ok"
                   /\ Recorded(metaDisk', i) = Recorded(meta, i)
                   /\ \/ Stops
                      \/ \E w \in Workers :
                            /\ Recording(w, i)
                            /\ req[w].start >= Recorded(metaDisk, i)
                            /\ Recorded(metaDisk', i) = req[w].endx]_vars

\* a last chunk was recorded and then refused: the target was in the way
C25_Witness ==
    \E w \in Workers :
        /\ PutDone(w)
        /\ req[w].out = Error(400, TargetExists)
        /\ metaDisk[req[w].id].st = "ok"
        /\ req[w].endx > req[w].start
        /\ Recorded(metaDisk, req[w].id) = req[w].endx


---------------------------------------------------------------------------
(* Session fields are immutable. *)

\* the fields of a record that create_session sets and nothing reassigns
Fields(m) == <<m.upload_id, m.target_path, m.total_size, m.overwrite>>

\* C26: once the record of a session is flushed by create_session, every
\* record written or flushed for that session in a later step of a create
\* (resuming or not, with any overwrite value), append_chunk, status or
\* cancel call has the same upload id, target path, total size and overwrite
\* flag; the upload id is the one the record is filed under.
C26_FieldsImmutable ==
    [][\A i \in IDs :
          metaDisk[i].st = "ok"
          => /\ metaDisk[i].upload_id = i
             /\ meta'[i].st = "ok" => Fields(meta'[i]) = Fields(metaDisk[i])
             /\ metaDisk'[i].st = "ok" => Fields(metaDisk'[i]) = Fields(metaDisk[i])]_vars

\* a chunk was recorded for a session that may overwrite its target, on a
\* server whose default is not to overwrite, and the session is not complete
C26_Witness ==
    \E w \in Workers :
        /\ PutDone(w)
        /\ req[w].out.code = 200
        /\ ~cfg.overwrite
        /\ meta[req[w].id].st = "ok"
        /\ meta[req[w].id].overwrite
        /\ meta[req[w].id].received = 1
        /\ meta[req[w].id].total_size = 2


---------------------------------------------------------------------------
(* Resume discovery has no side effects. *)

\* the sessions with a readable record for this target path and total size
Matching(t, n) ==
    {i \in IDs : /\ meta[i].st = "ok"
                 /\ meta[i].target_path = t
                 /\ meta[i].total_size = n}

\* worker w is in a create_session call that found no session to return
Creating(w) ==
    /\ req[w].op = "create"
    /\ req[w].pc \in {"store_open", "store_dump", "store_sync", "touch"}

\* the upload directory but for the two files of session i
Others(i) ==
    [j \in IDs \ {i} |-> <<meta[j], metaDisk[j], part[j], partDisk[j]>>]

\* C27: on a server that is not read-only, a create with resume=true for a
\* target path and total size that a session has answers with the view of
\* such a session as its record holds it, whatever overwrite value the
\* request carries, and leaves every record, every staging file and the
\* share as they are. Every other create starts one session under an id
\* that has neither record nor staging file; its steps leave the files of
\* every other session alone, and when it returns the record of the new
\* session holds offset 0 and the staging file exists and is empty.
C27_ResumeNoSideEffects ==
    /\ [][\A w \in Workers, t \in Targets, n \in Sizes, ow \in OverwriteArgs :
            (/\ DoPost(w, t, n, TRUE, ow)
             /\ ~cfg.read_only
             /\ Matching(t, n) # {})
            => /\ req'[w].pc = "respond"
               /\ \E i \in Matching(t, n) :
                     req'[w].out = Resp(201, "", PublicState(meta[i]))
               /\ UNCHANGED <<meta, metaDisk, part, partDisk, share, nextId>>]_vars
    /\ [][\A w \in Workers, t \in Targets, n \in Sizes, r \in BOOLEAN, ow \in OverwriteArgs :
            (/\ DoPost(w, t, n, r, ow)
             /\ ~cfg.read_only
             /\ (~r \/ Matching(t, n) = {}))
            => /\ req'[w].pc = "store_open"
               /\ meta[req'[w].id].st = "none"
               /\ ~part[req'[w].id].ex
               /\ req'[w].m.target_path = t
               /\ req'[w].m.total_size = n
               /\ req'[w].m.received = 0
               /\ UNCHANGED <<meta, metaDisk, part, partDisk, share>>]_vars
    /\ [][\A w \in Workers :
            Creating(w)
            => /\ Others(req[w].id)' = Others(req[w].id)
               /\ UNCHANGED share
               /\ req'[w].pc = "respond"
                  => /\ req'[w].out = Resp(201, "", PublicState(req[w].m))
                     /\ meta'[req[w].id] = req[w].m
                     /\ meta'[req[w].id].received = 0
                     /\ part'[req[w].id] = File(<<>>)]_vars

\* a resuming create was answered with a session that has a chunk recorded
\* and may overwrite, on a server whose default is not to overwrite
C27_Witness ==
    \E w \in Workers :
        /\ req[w].pc = "respond"
        /\ req[w].op = "create"
        /\ req[w].resume
        /\ req[w].out.code = 201
        /\ req[w].out.body.received = 1
        /\ req[w].out.body.overwrite
        /\ ~cfg.overwrite
        /\ meta[req[w].out.body.upload_id].st = "ok"
        /\ meta[req[w].out.body.upload_id].received = 1


---------------------------------------------------------------------------
(* Record and staging file exist together. *)

\* C28: whenever no store operation is in progress, after a crash and a
\* restart too, a session has a record file if and only if it has a staging
\* file.
C28_RecordIffStaging ==
    AtRest => \A i \in IDs : (meta[i].st # "none") <=> part[i].ex


---------------------------------------------------------------------------
(* The upload eventually completes. *)

\* a step of the server on a request it has taken: the handler thread runs
\* on, the lock is free for it (one request at a time here), and the
\* response of a status request goes out
ServeE2E ==
    \/ \E w \in Workers : Touch(w) /\ Quiet
    \/ \E w \in Workers : Write(w) /\ Quiet
    \/ \E w \in Workers : SyncPart(w) /\ Quiet
    \/ \E w \in Workers : StoreOpen(w) /\ Quiet
    \/ \E w \in Workers : StoreDump(w) /\ Quiet
    \/ \E w \in Workers : StoreSync(w) /\ Quiet
    \/ \E w \in Workers : Fin(w) /\ Quiet
    \/ \E w \in Workers : Move(w) /\ Quiet
    \/ \E w \in Workers : DeleteState(w) /\ Quiet
    \/ \E w \in Workers : cli.pc \in {"loop", "done"} /\ SendResponse(w) /\ Quiet

\* a step of the sender: upload of src/cli.py:99-124 sends its next request
\* or reads the response to the one it sent
SendE2E ==
    \/ \E w \in Workers : CliStart(w) /\ UNCHANGED <<pathVars, readVars>> /\ UNCHANGED histVars
    \/ \E w \in Workers : CliSession(w) /\ UNCHANGED <<pathVars, readVars>> /\ UNCHANGED histVars
    \/ \E w \in Workers : CliPut(w) /\ UNCHANGED <<pathVars, readVars>> /\ UNCHANGED histVars
    \/ \E w \in Workers : CliPutResp(w) /\ UNCHANGED <<pathVars, readVars>> /\ UNCHANGED histVars
    \/ CliDone /\ UNCHANGED <<pathVars, readVars>> /\ UNCHANGED histVars

\* the sender is about to call start_upload, on a server with write access,
\* for a path of the share that is free or that holds a file
InitE2ELive ==
    /\ PathIdle
    /\ cfg \in Configs
    /\ ~cfg.read_only
    /\ meta = [i \in IDs |-> NoMeta]
    /\ metaDisk = [i \in IDs |-> NoMeta]
    /\ part = [i \in IDs |-> NoFile]
    /\ partDisk = [i \in IDs |-> NoFile]
    /\ share \in [{"t1"} -> {NoFile, File(<<"z">>)}]
    /\ lock = "free"
    /\ req = [w \in {"w1"} |-> IdleReq]
    /\ nextId = 1
    /\ \E f \in Sources : cli = [CliOff EXCEPT !.pc = "start", !.src = f, !.target = "t1"]
    /\ NoHistory
    /\ ReadIdle

\* the runs of the sender in which every request is served in the end: the
\* server does not stop in a request, and the sender's request gets its turn
\* however often somebody else asks for the status in between
SpecE2ELive ==
    /\ InitE2ELive
    /\ [][NextE2E]_vars
    /\ WF_vars(ServeE2E)
    /\ SF_vars(SendE2E)

\* the sender has a session, not yet finalized, whose target path is free or
\* which may overwrite it
Eligible ==
    /\ cli.pc = "loop"
    /\ meta[cli.id].st = "ok"
    /\ ~share[cli.target].ex \/ meta[cli.id].overwrite

\* the sender's loop has ended with the file in place and the session gone
Uploaded ==
    /\ cli.pc = "done"
    /\ share[cli.target] = File(cli.src)
    /\ meta[cli.id].st = "none"
    /\ ~part[cli.id].ex

\* C29: a sender that has a session for a file of one byte or more, the
\* target path free or the session allowed to overwrite it, and that sends
\* after each response the next chunk from the offset the server reported,
\* with nobody cancelling and every request served in the end, reaches the
\* end of its loop with the session finalized and the target holding the
\* file, all its bytes; and it stays so.
C29_UploadCompletes == Eligible ~> []Uploaded

\* a file of MaxFile bytes is in place, the last response reporting them all
C29_Witness ==
    /\ Uploaded
    /\ cli.src # <<"z">>
    /\ Len(cli.src) = MaxFile
    /\ cli.last.body.received = MaxFile
    /\ cli.offset = MaxFile
    /\ Len(share[cli.target].data) = MaxFile

============================================================================
